---- MODULE Spec2Model ----
(***************************************************************************)
(* State-machine model of the season "wrapped" pipeline                    *)
(* (src/src/wrapped-get.ts: handleWrappedGet and its two wrappers), of the *)
(* payload conversions it calls (src/src/types.ts, src/src/helpers.ts) and *)
(* of the report fold (src/unnamed/part_002: generateReport).              *)
(*                                                                         *)
(* One request is served per behaviour.  The provider's answers are drawn  *)
(* when the code awaits them; the games of a match are drawn one by one   *)
(* in the order in which the code's for-of loop visits them.               *)
(*                                                                         *)
(* Environment assumptions: getTeamsForPlayer and getMatchesForTeam        *)
(* answer (the provider client is outside the pipeline); getMatchDetails   *)
(* may fail, and a detail payload may be malformed.  A field the GraphQL   *)
(* query asks for is present in the JSON answer, possibly as null.         *)
(***************************************************************************)
EXTENDS Integers, Sequences, FiniteSets, TLC

(***************************************************************************)
(* Bounds of the model.                                                    *)
(***************************************************************************)
MaxTeams == 2     \* team-seasons in the provider's answer (season requests)
MaxMatches == 2   \* matches in the schedules of one request, all teams
MaxFetched == 5   \* game rows served during one request (plain games)
MaxDeep == 3      \* game rows served during one request (detailed games)

(***************************************************************************)
(* Program constants.                                                      *)
(***************************************************************************)
MinGames == 5         \* wrapped-get.ts:591  totalGames < 5
DefaultSkill == 3     \* wrapped-get.ts:504  skillLevel || 3
DefaultYear == 2025   \* wrapped-get.ts:373  seasonYear === 2025

(***************************************************************************)
(* JavaScript values.  NULL is a JSON null in a numeric field; "" is a     *)
(* null or empty string.                                                   *)
(***************************************************************************)
NULL == 0 - 1

\* v || d on a number: null and 0 are falsy
OrNum(v, d) == IF v = NULL \/ v = 0 THEN d ELSE v

\* v || d on a string: null and "" are falsy
OrStr(v, d) == IF v = "" THEN d ELSE v

\* ToNumber of a relational comparison: null converts to 0
ToNumber(v) == IF v = NULL THEN 0 ELSE v

\* a > b on two numeric fields of the payload
JsGt(a, b) == ToNumber(a) > ToNumber(b)

\* Math.round(num / den * 1000) / 10 kept in tenths: round half up
RoundTenths(num, den) == (2 * 1000 * num + den) \div (2 * den)

Max2(a, b) == IF a > b THEN a ELSE b

Reverse(s) == [i \in 1..Len(s) |-> s[Len(s) + 1 - i]]

(***************************************************************************)
(* Season names.  A string is modelled as its sequence of space-separated  *)
(* tokens; every token is made of word characters, a numeral of digits.    *)
(***************************************************************************)
Numerals == {"2024", "2025"}

IsNumeral(tok) == tok \in Numerals

\* parseInt(tok, 10) on a numeral
ParseInt(tok) == IF tok = "2024" THEN 2024 ELSE IF tok = "2025" THEN 2025 ELSE 0

\* the leftmost match of /(\w+)\s+(\d+)/: the first token that is followed
\* by a numeral, and that numeral; 0 when there is no match
MatchIndex(tokens) ==
  IF \E i \in 1..(Len(tokens) - 1) : IsNumeral(tokens[i + 1])
  THEN CHOOSE i \in 1..(Len(tokens) - 1) :
         /\ IsNumeral(tokens[i + 1])
         /\ \A j \in 1..(i - 1) : ~IsNumeral(tokens[j + 1])
  ELSE 0

\* apaSeasonToSeason: { season, seasonYear } of a session name
apaSeasonToSeason(name) ==
  LET i == MatchIndex(name)
  IN [season |-> name[i], seasonYear |-> ParseInt(name[i + 1])]

\* apaTeamToTeam; k stands for the k-th crypto.randomUUID() of the request
apaTeamToTeam(apaTeam, k) ==
  LET s == apaSeasonToSeason(apaTeam.session)
  IN [id |-> k, apaId |-> apaTeam.teamId, name |-> apaTeam.name,
      season |-> s.season, seasonYear |-> s.seasonYear, matchIds |-> <<>>]

\* seasonOrder[...] || 0
SeasonOrder(season) ==
  CASE season = "Spring" -> 1
    [] season = "Summer" -> 2
    [] season = "Fall" -> 3
    [] season = "Winter" -> 4
    [] OTHER -> 0

\* the comparator of sortTeamsBySeason
CompareSeason(a, b) ==
  IF a.seasonYear # b.seasonYear
  THEN a.seasonYear - b.seasonYear
  ELSE SeasonOrder(a.season) - SeasonOrder(b.season)

\* Array.prototype.sort is stable: x goes before the first element that
\* compares greater
RECURSIVE InsertTeam(_, _)
InsertTeam(sorted, x) ==
  IF sorted = <<>> THEN <<x>>
  ELSE IF CompareSeason(Head(sorted), x) > 0 THEN <<x>> \o sorted
  ELSE <<Head(sorted)>> \o InsertTeam(Tail(sorted), x)

RECURSIVE sortTeamsBySeason(_)
sortTeamsBySeason(teams) ==
  IF teams = <<>> THEN <<>>
  ELSE InsertTeam(sortTeamsBySeason(SubSeq(teams, 1, Len(teams) - 1)),
                  teams[Len(teams)])

sortTeamsBySeasonDesc(teams) == Reverse(sortTeamsBySeason(teams))

(***************************************************************************)
(* The season predicate of a request.  kind is "default" (no predicate     *)
(* given), "season" (handleWrappedSeasonGet) or "year"                     *)
(* (handleWrappedYearGet).                                                 *)
(***************************************************************************)
DefaultFilterAnySeason(team) == team.seasonYear = DefaultYear

DefaultFilter(team) == team.season = "Fall" /\ team.seasonYear = DefaultYear

SeasonFilter(tokens, team) ==
  LET i == MatchIndex(tokens)
  IN team.season = tokens[i] /\ team.seasonYear = ParseInt(tokens[i + 1])

YearFilterAnySeason(year, team) == team.seasonYear = year

YearFilter(year, team) ==
  /\ team.seasonYear = year
  /\ team.season \in {"Spring", "Summer", "Fall"}

filterFn(req, team) ==
  CASE req.kind = "season" -> SeasonFilter(req.season, team)
    [] req.kind = "year" -> YearFilter(req.year, team)
    [] OTHER -> DefaultFilter(team)

\* playerIdByTeam: for each provider team, the id of the first selected
\* team with its apaId is mapped to the player's id on that team
RECURSIVE BuildPlayerIdByTeam(_, _, _)
BuildPlayerIdByTeam(apaTs, filtered, acc) ==
  IF apaTs = <<>> THEN acc
  ELSE LET t == Head(apaTs)
           hits == {i \in 1..Len(filtered) : filtered[i].apaId = t.teamId}
       IN IF hits = {}
          THEN BuildPlayerIdByTeam(Tail(apaTs), filtered, acc)
          ELSE LET first == CHOOSE i \in hits : \A j \in hits : i <= j
                   tid == filtered[first].id
               IN BuildPlayerIdByTeam(Tail(apaTs), filtered,
                    [k \in DOMAIN acc \cup {tid} |->
                       IF k = tid THEN t.id ELSE acc[k]])

\* playerIdByTeam[team.id]; "undefined" when the key is absent
PlayerIdOf(map, teamId) ==
  IF teamId \in DOMAIN map THEN map[teamId] ELSE "undefined"

(***************************************************************************)
(* Conversion of a match-details payload.                                  *)
(***************************************************************************)
\* apaMatchToMatch: the fields of Match the pipeline reads
apaMatchToMatch(apaMatch) ==
  [date |-> apaMatch.startTime, location |-> apaMatch.location]

\* skillLevel === 0 ? 3 : skillLevel
ConvertSkill(skillLevel) == IF skillLevel = 0 THEN 3 ELSE skillLevel

\* one PlayerMatch of apaMatchToPlayerMatches, from a HOME score row and the
\* AWAY score row of the same matchPositionNumber
ToStats(score) ==
  [id |-> score.playerId, name |-> score.displayName,
   skillLevel |-> ConvertSkill(score.skillLevel),
   score |-> score.eightBallMatchPointsEarned,
   innings |-> score.innings]

apaMatchToPlayerMatch(row) ==
  [matchOrder |-> row.matchPositionNumber,
   homePlayerStats |-> ToStats(row.home),
   awayPlayerStats |-> ToStats(row.away)]

\* the values of match and playerMatch while they are out of scope
NoMatch == [date |-> 0, location |-> ""]

NoPlayerMatch ==
  [matchOrder |-> 0,
   homePlayerStats |-> [id |-> "", name |-> "", skillLevel |-> NULL,
                        score |-> NULL, innings |-> NULL],
   awayPlayerStats |-> [id |-> "", name |-> "", skillLevel |-> NULL,
                        score |-> NULL, innings |-> NULL]]

(***************************************************************************)
(* Aggregate buckets.  A Record<string, {wins, losses}> is the sequence of *)
(* its entries in insertion order, which is the order of Object.entries;   *)
(* a Record<number, ...> lists its integer keys in ascending order.        *)
(***************************************************************************)
HasKey(stats, key) == \E i \in 1..Len(stats) : stats[i].key = key

IndexOf(stats, key) == CHOOSE i \in 1..Len(stats) : stats[i].key = key

\* if (!stats[key]) stats[key] = { wins: 0, losses: 0 }
Ensure(stats, key) ==
  IF HasKey(stats, key) THEN stats
  ELSE Append(stats, [key |-> key, wins |-> 0, losses |-> 0])

\* the same on integer keys: a key >= 0 takes its ascending place before
\* every other key, a negative key is an ordinary string key
EnsureInt(stats, key) ==
  IF HasKey(stats, key) \/ key < 0 THEN Ensure(stats, key)
  ELSE LET lo == SelectSeq(stats, LAMBDA e : e.key >= 0 /\ e.key < key)
           hi == SelectSeq(stats, LAMBDA e : e.key < 0 \/ e.key > key)
       IN lo \o <<[key |-> key, wins |-> 0, losses |-> 0]>> \o hi

\* if (isWin) stats[key].wins++; if (isLoss) stats[key].losses++
Count(stats, key, isWin, isLoss) ==
  [i \in 1..Len(stats) |->
     IF stats[i].key = key
     THEN [stats[i] EXCEPT !.wins = @ + (IF isWin THEN 1 ELSE 0),
                           !.losses = @ + (IF isLoss THEN 1 ELSE 0)]
     ELSE stats[i]]

Bump(stats, key, isWin, isLoss) == Count(Ensure(stats, key), key, isWin, isLoss)

BumpInt(stats, key, isWin, isLoss) ==
  Count(EnsureInt(stats, key), key, isWin, isLoss)

\* if (!teamStats[team.id]) teamStats[team.id] = { name, ..., wins: 0, losses: 0 }
EnsureTeam(stats, team) ==
  IF HasKey(stats, team.id) THEN stats
  ELSE Append(stats, [key |-> team.id, name |-> team.name,
                      season |-> team.season, seasonYear |-> team.seasonYear,
                      wins |-> 0, losses |-> 0])

(***************************************************************************)
(* Team-situation reconstruction.                                          *)
(***************************************************************************)
\* if (!isPlayerHome && !isPlayerAway): a game between two other players
IsSkippedUnlessHome(isPlayerHome, isPlayerAway) == ~isPlayerHome

IsSkipped(isPlayerHome, isPlayerAway) == ~isPlayerHome /\ ~isPlayerAway

TeamSituationAsHome(isPlayerHome, home, away) ==
  IF home > away THEN "team_winning"
  ELSE IF home < away THEN "team_losing" ELSE "team_tied"

TeamSituation(isPlayerHome, home, away) ==
  IF isPlayerHome
  THEN IF home > away THEN "team_winning"
       ELSE IF home < away THEN "team_losing" ELSE "team_tied"
  ELSE IF away > home THEN "team_winning"
       ELSE IF away < home THEN "team_losing" ELSE "team_tied"

\* the branch of a game between two other players: which counter it bumps
SkippedHomeWonOrTied(pm) ==
  ToNumber(pm.homePlayerStats.score) >= ToNumber(pm.awayPlayerStats.score)

SkippedHomeWon(pm) == JsGt(pm.homePlayerStats.score, pm.awayPlayerStats.score)

\* the same decisions in generateReport
RIsSkipped(isPlayerHome, isPlayerAway) == ~isPlayerHome /\ ~isPlayerAway

RTeamSituationAsHome(isPlayerHome, home, away) ==
  IF home > away THEN "team_winning"
  ELSE IF home < away THEN "team_losing" ELSE "team_tied"

RTeamSituation(isPlayerHome, home, away) ==
  IF isPlayerHome
  THEN IF home > away THEN "team_winning"
       ELSE IF home < away THEN "team_losing" ELSE "team_tied"
  ELSE IF away > home THEN "team_winning"
       ELSE IF away < home THEN "team_losing" ELSE "team_tied"

RSkippedHomeWon(pm) == JsGt(pm.homePlayerStats.score, pm.awayPlayerStats.score)

RTrackedBumpsHome(isWin, isPlayerHome) ==
  IF isWin THEN isPlayerHome ELSE ~isPlayerHome

\* the counter a game of the tracked player bumps: TRUE for the home counter
TrackedBumpsHome(isWin, isPlayerHome) ==
  IF isWin THEN isPlayerHome ELSE ~isPlayerHome

(***************************************************************************)
(* State of one request to handleWrappedGet.                               *)
(***************************************************************************)
VARIABLES
  pc,                    \* where the handler stands
  request,               \* the wrapper called and its argument
  apaTeams,              \* answer of getTeamsForPlayer
  filteredTeams,         \* the selected TeamSeasons, matchIds filled in
  playerIdByTeam,
  ti,                    \* index of team in filteredTeams
  mi,                    \* index of teamMatch in the team's schedule
  match,                 \* apaMatchToMatch(apaMatch) of the current match
  playerMatch,           \* loop variable of the game loop
  homeTeamScoreUpToNow,
  awayTeamScoreUpToNow,
  totalGames,
  skillLevels,
  teamStats,
  locationStats,
  positionStats,
  opponentRecords,
  opponentMatchups,
  allPlayerMatches,
  result,                \* what the promise settles to
  report,                \* stats of generateReport
  totalMatches,          \* totalMatches of generateReport
  listCalls,             \* calls of getMatchesForTeam
  detailCalls,           \* calls of getMatchDetails
  fetched,               \* game rows served by the provider
  errors,                \* calls of console.error
  suspended              \* the locals of a second invocation, waiting at
                         \* one of its awaits

(***************************************************************************)
(* State of the server around the handlers: the rate limiter in front of   *)
(* every route and the provider client the handlers share.                 *)
(***************************************************************************)
VARIABLES
  rateLimitStore,        \* key -> {count, resetAt}, NoRecord when absent
  now,                   \* Date.now(), in units of 30 seconds
  inFlight,              \* key -> requests past the limiter, not yet answered
  windows,               \* key -> the window open for the key and the
                         \* requests that reached the handler in it
  arrived,               \* requests received so far
  response,              \* what the limiter did with the last request
  cpc,                   \* where makeGraphQLRequest stands
  retryCount,
  currentAuthToken,
  deviceRefreshToken,
  caller,                \* who awaits login: getAuthHeaders or the re-login
  reply,                 \* the provider's last answer to the query
  fetches,               \* times the query was sent
  logins,                \* calls of login
  meddled                \* token changes made by other calls on the client

limiterVars == <<rateLimitStore, now, inFlight, windows, arrived, response>>

clientVars ==
  <<cpc, retryCount, currentAuthToken, deviceRefreshToken, caller, reply,
    fetches, logins, meddled>>

serverVars == <<limiterVars, clientVars>>

aggregates ==
  <<totalGames, skillLevels, teamStats, locationStats, positionStats,
    opponentRecords, opponentMatchups, allPlayerMatches>>

counters == <<homeTeamScoreUpToNow, awayTeamScoreUpToNow>>

vars ==
  <<pc, request, apaTeams, filteredTeams, playerIdByTeam, ti, mi, match,
    playerMatch, homeTeamScoreUpToNow, awayTeamScoreUpToNow, totalGames,
    skillLevels, teamStats, locationStats, positionStats, opponentRecords,
    opponentMatchups, allPlayerMatches, result, report, totalMatches,
    listCalls, detailCalls, fetched, errors, suspended, serverVars>>

\* the variables of the handlers
handlerVars ==
  <<pc, request, apaTeams, filteredTeams, playerIdByTeam, ti, mi, match,
    playerMatch, homeTeamScoreUpToNow, awayTeamScoreUpToNow, totalGames,
    skillLevels, teamStats, locationStats, positionStats, opponentRecords,
    opponentMatchups, allPlayerMatches, result, report, totalMatches,
    listCalls, detailCalls, fetched, errors, suspended>>

\* the variables of generateReport
reportVars == <<report, totalMatches>>

\* what the provider and the console have seen
envVars == <<listCalls, detailCalls, fetched, errors>>

\* the (client IP, path) pairs the limiter keeps apart: `${ip}:${path}`
Ips == {"10.0.0.1", "unknown"}

Paths == {"/api/wrapped/get", "/health"}

Keys == Ips \X Paths

\* rateLimitStore.get(key) === undefined
NoRecord == [count |-> 0, resetAt |-> 0 - 1]

NoResponse == [key |-> <<"", "">>, status |-> 0]

\* a token the client holds, or null
NoToken == "null"

Tokens == {NoToken, "token"}

EmptyReport ==
  [overallWins |-> 0, overallLosses |-> 0, bySession |-> <<>>,
   headToHead |-> <<>>, byPosition |-> <<>>, byLocation |-> <<>>,
   scoreDistribution |-> <<>>, bySkillDifference |-> <<>>,
   byOpponentSkill |-> <<>>, byMySkill |-> <<>>, byInnings |-> <<>>,
   byTeamSituation |-> <<>>]

NoResult == [status |-> "pending", error |-> "", slides |-> <<>>]

Failure(msg) == [status |-> "error", error |-> msg, slides |-> <<>>]

\* everything an invocation of handleWrappedGet declares
Frame ==
  [pc |-> pc, request |-> request, apaTeams |-> apaTeams,
   filteredTeams |-> filteredTeams, playerIdByTeam |-> playerIdByTeam,
   ti |-> ti, mi |-> mi, match |-> match, playerMatch |-> playerMatch,
   homeTeamScoreUpToNow |-> homeTeamScoreUpToNow,
   awayTeamScoreUpToNow |-> awayTeamScoreUpToNow,
   totalGames |-> totalGames, skillLevels |-> skillLevels,
   teamStats |-> teamStats, locationStats |-> locationStats,
   positionStats |-> positionStats, opponentRecords |-> opponentRecords,
   opponentMatchups |-> opponentMatchups,
   allPlayerMatches |-> allPlayerMatches, result |-> result]

Init ==
  /\ pc = "idle"
  /\ request = [season |-> <<>>, year |-> 0, kind |-> "default"]
  /\ apaTeams = <<>>
  /\ filteredTeams = <<>>
  /\ playerIdByTeam = <<>>
  /\ ti = 0
  /\ mi = 0
  /\ match = NoMatch
  /\ playerMatch = NoPlayerMatch
  /\ homeTeamScoreUpToNow = 0
  /\ awayTeamScoreUpToNow = 0
  /\ totalGames = 0
  /\ skillLevels = <<>>
  /\ teamStats = <<>>
  /\ locationStats = <<>>
  /\ positionStats = <<>>
  /\ opponentRecords = <<>>
  /\ opponentMatchups = <<>>
  /\ allPlayerMatches = <<>>
  /\ result = NoResult
  /\ report = EmptyReport
  /\ totalMatches = 0
  /\ listCalls = 0
  /\ detailCalls = 0
  /\ fetched = 0
  /\ errors = 0
  /\ suspended = Frame
  /\ rateLimitStore = [key \in Keys |-> NoRecord]
  /\ now = 0
  /\ inFlight = [key \in Keys |-> 0]
  /\ windows = [key \in Keys |-> NoRecord]
  /\ arrived = 0
  /\ response = NoResponse
  /\ cpc = "idle"
  /\ retryCount = 0
  /\ currentAuthToken = NoToken
  /\ deviceRefreshToken = NoToken
  /\ caller = ""
  /\ reply = ""
  /\ fetches = 0
  /\ logins = 0
  /\ meddled = 0

(***************************************************************************)
(* handleWrappedGet up to its first await of getMatchesForTeam, entered    *)
(* directly or through a wrapper.                                          *)
(***************************************************************************)
SelectTeams(req, teams) ==
  LET mapped == [k \in 1..Len(teams) |-> apaTeamToTeam(teams[k], k)]
      allTeams == sortTeamsBySeasonDesc(mapped)
  IN SelectSeq(allTeams, LAMBDA t : filterFn(req, t))

WStart(req, teams) ==
  /\ pc = "idle"
  /\ request' = req
  /\ IF req.kind = "season" /\ MatchIndex(req.season) = 0
     THEN \* handleWrappedSeasonGet: the season string does not parse
          /\ pc' = "failed"
          /\ result' = Failure("Invalid season format")
          /\ UNCHANGED <<apaTeams, filteredTeams, playerIdByTeam, ti, teamStats>>
     ELSE LET filtered == SelectTeams(req, teams)
          IN /\ apaTeams' = teams
             /\ IF Len(filtered) = 0
                THEN /\ pc' = "failed"
                     /\ result' = Failure("No teams found")
                     /\ UNCHANGED <<filteredTeams, playerIdByTeam, ti, teamStats>>
                ELSE /\ pc' = "list"
                     /\ filteredTeams' = filtered
                     /\ playerIdByTeam' =
                          BuildPlayerIdByTeam(teams, filtered, <<>>)
                     /\ ti' = 1
                     /\ teamStats' = EnsureTeam(teamStats, filtered[1])
                     /\ UNCHANGED result
  /\ UNCHANGED <<mi, match, playerMatch, counters, totalGames, skillLevels,
                 locationStats, positionStats, opponentRecords,
                 opponentMatchups, allPlayerMatches, listCalls, detailCalls,
                 fetched>>
  /\ UNCHANGED reportVars
  /\ UNCHANGED errors
  /\ UNCHANGED suspended
  /\ UNCHANGED serverVars

(***************************************************************************)
(* Leaving a match: the next match of the schedule, else the next team     *)
(* (whose teamStats entry is created before its schedule is awaited),     *)
(* else the threshold check.                                               *)
(***************************************************************************)
NextMatch(teams) ==
  IF mi < Len(teams[ti].matchIds)
  THEN /\ pc' = "detail"
       /\ mi' = mi + 1
       /\ UNCHANGED <<ti, teamStats>>
  ELSE IF ti < Len(teams)
  THEN /\ pc' = "list"
       /\ ti' = ti + 1
       /\ mi' = 0
       /\ teamStats' = EnsureTeam(teamStats, teams[ti + 1])
  ELSE /\ pc' = "check"
       /\ UNCHANGED <<ti, mi, teamStats>>

\* await getMatchesForTeam(team.apaId); team.matchIds = matchIds
WFetchList(n) ==
  /\ pc = "list"
  /\ listCalls' = listCalls + 1
  /\ filteredTeams' =
       [filteredTeams EXCEPT ![ti].matchIds = [k \in 1..n |-> k]]
  /\ NextMatch(filteredTeams')
  /\ UNCHANGED <<request, apaTeams, playerIdByTeam, match, playerMatch,
                 counters, totalGames, skillLevels, locationStats,
                 positionStats, opponentRecords, opponentMatchups,
                 allPlayerMatches, result, detailCalls, fetched>>
  /\ UNCHANGED reportVars
  /\ UNCHANGED errors
  /\ UNCHANGED suspended
  /\ UNCHANGED serverVars

\* the same failure without the try/catch around the match
WMatchFailUncaught ==
  /\ pc = "detail"
  /\ detailCalls' = detailCalls + 1
  /\ pc' = "failed"
  /\ result' = Failure("match failed")
  /\ errors' = errors + 1
  /\ UNCHANGED <<request, apaTeams, filteredTeams, playerIdByTeam, ti, mi,
                 match, playerMatch, counters, aggregates, reportVars,
                 listCalls, fetched>>
  /\ UNCHANGED suspended
  /\ UNCHANGED serverVars

\* getMatchDetails rejects, or apaMatchToMatch or apaMatchToPlayerMatches
\* throws on the payload: the catch logs and the loop goes on
WMatchFail ==
  /\ pc = "detail"
  /\ detailCalls' = detailCalls + 1
  /\ NextMatch(filteredTeams)
  /\ UNCHANGED <<request, apaTeams, filteredTeams, playerIdByTeam, match,
                 playerMatch, counters, totalGames, skillLevels,
                 locationStats, positionStats, opponentRecords,
                 opponentMatchups, allPlayerMatches, result, listCalls,
                 fetched>>
  /\ UNCHANGED reportVars
  /\ errors' = errors + 1
  /\ UNCHANGED suspended
  /\ UNCHANGED serverVars

\* the details arrive and convert: the running counters start at 0
WMatchStart(apaMatch) ==
  /\ pc = "detail"
  /\ detailCalls' = detailCalls + 1
  /\ match' = apaMatchToMatch(apaMatch)
  /\ playerMatch' = NoPlayerMatch
  /\ homeTeamScoreUpToNow' = 0
  /\ awayTeamScoreUpToNow' = 0
  /\ pc' = "games"
  /\ UNCHANGED <<request, apaTeams, filteredTeams, playerIdByTeam, ti, mi,
                 totalGames, skillLevels, teamStats, locationStats,
                 positionStats, opponentRecords, opponentMatchups,
                 allPlayerMatches, result, listCalls, fetched>>
  /\ UNCHANGED reportVars
  /\ UNCHANGED errors
  /\ UNCHANGED suspended
  /\ UNCHANGED serverVars

\* one iteration of the game loop; the rows come sorted by position
\* a game row that is read and left out of the running score
WGameUncounted(row) ==
  /\ pc = "games"
  /\ row.matchPositionNumber > playerMatch.matchOrder
  /\ fetched' = fetched + 1
  /\ playerMatch' = apaMatchToPlayerMatch(row)
  /\ UNCHANGED <<pc, request, apaTeams, filteredTeams, playerIdByTeam, ti, mi,
                 match, result, listCalls, detailCalls>>
  /\ UNCHANGED <<counters, aggregates, reportVars, errors, suspended>>
  /\ UNCHANGED serverVars

WGame(row) ==
  /\ pc = "games"
  /\ row.matchPositionNumber > playerMatch.matchOrder
  /\ fetched' = fetched + 1
  /\ LET pm == apaMatchToPlayerMatch(row)
         team == filteredTeams[ti]
         pid == PlayerIdOf(playerIdByTeam, team.id)
         isPlayerHome == pm.homePlayerStats.id = pid
         isPlayerAway == pm.awayPlayerStats.id = pid
     IN /\ playerMatch' = pm
        /\ IF IsSkipped(isPlayerHome, isPlayerAway)
           THEN /\ IF SkippedHomeWon(pm)
                   THEN /\ homeTeamScoreUpToNow' = homeTeamScoreUpToNow + 1
                        /\ UNCHANGED awayTeamScoreUpToNow
                   ELSE /\ awayTeamScoreUpToNow' = awayTeamScoreUpToNow + 1
                        /\ UNCHANGED homeTeamScoreUpToNow
                /\ UNCHANGED aggregates
           ELSE LET playerStats == IF isPlayerHome THEN pm.homePlayerStats
                                   ELSE pm.awayPlayerStats
                    opponentStats == IF isPlayerHome THEN pm.awayPlayerStats
                                     ELSE pm.homePlayerStats
                    playerScore == OrNum(playerStats.score, 0)
                    opponentScore == OrNum(opponentStats.score, 0)
                    isWin == playerScore > opponentScore
                    isLoss == playerScore < opponentScore
                    playerSkill == OrNum(playerStats.skillLevel, DefaultSkill)
                    opponentSkill == OrNum(opponentStats.skillLevel, DefaultSkill)
                    location == OrStr(match.location, "Unknown")
                    position == pm.matchOrder
                    opponentName == OrStr(opponentStats.name, "Unknown")
                    teamSituation == TeamSituation(isPlayerHome,
                                       homeTeamScoreUpToNow, awayTeamScoreUpToNow)
                IN /\ totalGames' = totalGames + 1
                   /\ skillLevels' = Append(skillLevels, playerSkill)
                   /\ teamStats' = Count(teamStats, team.id, isWin, isLoss)
                   /\ locationStats' = Bump(locationStats, location, isWin, isLoss)
                   /\ positionStats' = BumpInt(positionStats, position, isWin, isLoss)
                   /\ opponentRecords' =
                        Bump(opponentRecords, opponentName, isWin, isLoss)
                   /\ opponentMatchups' = Append(opponentMatchups,
                        [opponentName |-> opponentName,
                         opponentSkill |-> opponentSkill,
                         date |-> match.date, isWin |-> isWin])
                   /\ allPlayerMatches' = Append(allPlayerMatches,
                        [isWin |-> isWin, date |-> match.date,
                         playerSkill |-> playerSkill,
                         opponentSkill |-> opponentSkill,
                         skillDifference |-> playerSkill - opponentSkill,
                         position |-> position, location |-> location,
                         teamSituation |-> teamSituation,
                         isHome |-> isPlayerHome, teamId |-> team.id,
                         teamName |-> team.name,
                         opponentName |-> opponentName,
                         playerScore |-> playerScore,
                         opponentScore |-> opponentScore])
                   /\ IF TrackedBumpsHome(isWin, isPlayerHome)
                      THEN /\ homeTeamScoreUpToNow' = homeTeamScoreUpToNow + 1
                           /\ UNCHANGED awayTeamScoreUpToNow
                      ELSE /\ awayTeamScoreUpToNow' = awayTeamScoreUpToNow + 1
                           /\ UNCHANGED homeTeamScoreUpToNow
  /\ UNCHANGED <<pc, request, apaTeams, filteredTeams, playerIdByTeam, ti, mi,
                 match, result, listCalls, detailCalls>>
  /\ UNCHANGED reportVars
  /\ UNCHANGED errors
  /\ UNCHANGED suspended
  /\ UNCHANGED serverVars

\* the game loop has visited every PlayerMatch of the match; match,
\* playerMatch and the two counters are declared inside the try block and
\* go out of scope with it
WMatchEnd ==
  /\ pc = "games"
  /\ NextMatch(filteredTeams)
  /\ match' = NoMatch
  /\ playerMatch' = NoPlayerMatch
  /\ homeTeamScoreUpToNow' = 0
  /\ awayTeamScoreUpToNow' = 0
  /\ UNCHANGED <<request, apaTeams, filteredTeams, playerIdByTeam,
                 totalGames, skillLevels,
                 locationStats, positionStats, opponentRecords,
                 opponentMatchups, allPlayerMatches, result, listCalls,
                 detailCalls, fetched>>
  /\ UNCHANGED reportVars
  /\ UNCHANGED errors
  /\ UNCHANGED suspended
  /\ UNCHANGED serverVars

(***************************************************************************)
(* After the loops: the threshold check and the slides.                    *)
(***************************************************************************)
\* stable sort by ascending date
RECURSIVE InsertByDate(_, _)
InsertByDate(sorted, x) ==
  IF sorted = <<>> THEN <<x>>
  ELSE IF Head(sorted).date > x.date THEN <<x>> \o sorted
  ELSE <<Head(sorted)>> \o InsertByDate(Tail(sorted), x)

RECURSIVE SortByDate(_)
SortByDate(s) ==
  IF s = <<>> THEN <<>>
  ELSE InsertByDate(SortByDate(SubSeq(s, 1, Len(s) - 1)), s[Len(s)])

CountWhere(s, flag) ==
  Cardinality({i \in 1..Len(s) : s[i].isWin = flag})

\* the streak loop, from the last record down to the first
RECURSIVE StreakFrom(_, _, _, _)
StreakFrom(s, i, current, longest) ==
  IF i = 0 THEN longest
  ELSE IF s[i].isWin
       THEN StreakFrom(s, i - 1, current + 1, Max2(longest, current + 1))
       ELSE StreakFrom(s, i - 1, 0, longest)

LongestWinStreakAsWins(s) == CountWhere(s, TRUE)

LongestWinStreak(s) == StreakFrom(s, Len(s), 0, 0)

RECURSIVE MaxOf(_, _)
MaxOf(s, floor) ==
  IF s = <<>> THEN floor ELSE MaxOf(Tail(s), Max2(Head(s), floor))

WinPctDown(w, l) == IF w + l > 0 THEN (1000 * w) \div (w + l) ELSE 0

WinPct(w, l) == IF w + l > 0 THEN RoundTenths(w, w + l) ELSE 0

\* Math.round(num / den) on non-negative operands: round half up
RoundInt(num, den) == (2 * num + den) \div (2 * den)

\* s.slice(0, Math.min(n, s.length))
Take(s, n) == SubSeq(s, 1, IF Len(s) < n THEN Len(s) ELSE n)

\* s.slice(-Math.min(n, s.length))
LastN(s, n) == IF Len(s) <= n THEN s ELSE SubSeq(s, Len(s) - n + 1, Len(s))

\* Array.prototype.sort with a comparator that orders by ascending keys[i]:
\* the sort is stable, equal keys keep their order
StableSort(s, keys) ==
  LET Rank(i) == 1 + Cardinality({j \in 1..Len(s) :
                     \/ keys[j] < keys[i]
                     \/ keys[j] = keys[i] /\ j < i})
  IN [p \in 1..Len(s) |-> s[CHOOSE i \in 1..Len(s) : Rank(i) = p]]

\* the locals of handleWrappedGet the slides are computed from
Locals ==
  [totalGames |-> totalGames, skillLevels |-> skillLevels,
   teamStats |-> teamStats, locationStats |-> locationStats,
   positionStats |-> positionStats, opponentRecords |-> opponentRecords,
   opponentMatchups |-> opponentMatchups,
   allPlayerMatches |-> allPlayerMatches, filteredTeams |-> filteredTeams]

\* allPlayerMatches.sort((a, b) => a.date.getTime() - b.date.getTime())
Sorted(a) == [a EXCEPT !.allPlayerMatches = SortByDate(@)]

Slide0(a) == [type |-> "welcome", totalGames |-> a.totalGames]

Slide1(a) ==
  LET wins == CountWhere(a.allPlayerMatches, TRUE)
      losses == CountWhere(a.allPlayerMatches, FALSE)
  IN [type |-> "howdYouDo", wins |-> wins, losses |-> losses,
      winPercentage |-> IF a.totalGames > 0
                        THEN RoundTenths(wins, a.totalGames)
                        ELSE 0,
      startingSkill |-> IF Len(a.skillLevels) > 0
                        THEN OrNum(a.skillLevels[1], DefaultSkill)
                        ELSE DefaultSkill,
      endingSkill |-> IF Len(a.skillLevels) > 0
                      THEN OrNum(a.skillLevels[Len(a.skillLevels)], DefaultSkill)
                      ELSE DefaultSkill,
      highestSkill |-> MaxOf(a.skillLevels, DefaultSkill),
      longestWinStreak |-> LongestWinStreak(a.allPlayerMatches)]

TeamRecord(stats) ==
  [teamName |-> stats.name, season |-> stats.season,
   seasonYear |-> stats.seasonYear, wins |-> stats.wins,
   losses |-> stats.losses, winPercentage |-> WinPct(stats.wins, stats.losses)]

\* reduce((best, current) => current.winPercentage > best.winPercentage ? ...)
RECURSIVE BestOf(_, _)
BestOf(recs, best) ==
  IF recs = <<>> THEN best
  ELSE BestOf(Tail(recs),
              IF Head(recs).winPercentage > best.winPercentage
              THEN Head(recs) ELSE best)

\* reduce((worst, current) => current.winPercentage < worst.winPercentage ? ...)
RECURSIVE WorstOf(_, _)
WorstOf(recs, worst) ==
  IF recs = <<>> THEN worst
  ELSE WorstOf(Tail(recs),
               IF Head(recs).winPercentage < worst.winPercentage
               THEN Head(recs) ELSE worst)

Slide2(a) ==
  LET teamRecords ==
        [i \in 1..Len(a.teamStats) |-> TeamRecord(a.teamStats[i])]
  IN [type |-> "yourTeams", teams |-> teamRecords,
      bestTeam |-> BestOf(Tail(teamRecords), Head(teamRecords))]

\* if (filteredTeams.length > 1) slide2 = ...
HasTeamSlideAlways(teams) == TRUE

HasTeamSlide(teams) == Len(teams) > 1

\* Object.entries(locationStats).map(...)
LocationRecords(a) ==
  [i \in 1..Len(a.locationStats) |->
     LET e == a.locationStats[i]
     IN [location |-> e.key, wins |-> e.wins, losses |-> e.losses,
         winPercentage |-> WinPct(e.wins, e.losses),
         totalMatches |-> e.wins + e.losses]]

\* by winPercentage descending, then by totalMatches descending
SortedLocationsAsListed(a) == LocationRecords(a)

SortedLocations(a) ==
  LET recs == LocationRecords(a)
      width == Len(a.allPlayerMatches) + 1
  IN StableSort(recs, [i \in 1..Len(recs) |->
       0 - (recs[i].winPercentage * width + recs[i].totalMatches)])

\* Object.entries(positionStats).map(...): integer keys, ascending
PositionRecords(a) ==
  [i \in 1..Len(a.positionStats) |->
     LET e == a.positionStats[i]
     IN [position |-> e.key, wins |-> e.wins, losses |-> e.losses,
         winPercentage |-> WinPct(e.wins, e.losses)]]

BestPosition(a) ==
  LET recs == PositionRecords(a)
  IN IF Len(recs) > 1 THEN BestOf(Tail(recs), Head(recs)) ELSE recs[1]

WorstPosition(a) ==
  LET recs == PositionRecords(a)
  IN IF Len(recs) > 1 THEN WorstOf(Tail(recs), Head(recs)) ELSE recs[1]

Slide3(a) ==
  [type |-> "happyPlace",
   bestLocations |-> Take(SortedLocations(a), 3),
   worstLocations |-> Reverse(LastN(SortedLocations(a), 3)),
   bestPosition |-> BestPosition(a),
   worstPosition |-> WorstPosition(a)]

\* Object.entries(opponentRecords).map(...)
OpponentRecordList(a) ==
  [i \in 1..Len(a.opponentRecords) |->
     LET e == a.opponentRecords[i]
     IN [opponentName |-> e.key, wins |-> e.wins, losses |-> e.losses,
         winPercentage |-> WinPct(e.wins, e.losses),
         totalMatches |-> e.wins + e.losses]]

\* by totalMatches descending, then by winPercentage descending
SortedOpponents(a) ==
  LET recs == OpponentRecordList(a)
  IN StableSort(recs, [i \in 1..Len(recs) |->
       0 - (recs[i].totalMatches * 1001 + recs[i].winPercentage)])

\* { ...opponentRecordList.find(o => o.opponentName === m.opponentName),
\*   opponentSkill, date, isWin }
WithSkill(a, m) ==
  LET recs == OpponentRecordList(a)
      o == recs[CHOOSE i \in 1..Len(recs) :
                  /\ recs[i].opponentName = m.opponentName
                  /\ \A j \in 1..(i - 1) :
                       recs[j].opponentName # m.opponentName]
  IN [opponentName |-> o.opponentName, wins |-> o.wins, losses |-> o.losses,
      winPercentage |-> o.winPercentage, totalMatches |-> o.totalMatches,
      opponentSkill |-> m.opponentSkill, date |-> m.date, isWin |-> m.isWin]

\* the Map keyed by `${opponentName}_${opponentSkill}`: the first matchup of
\* each key, in insertion order
UniqueMatchups(ms) ==
  SelectSeq([i \in 1..Len(ms) |->
               [m |-> ms[i],
                first |-> \A j \in 1..(i - 1) :
                            \/ ms[j].opponentName # ms[i].opponentName
                            \/ ms[j].opponentSkill # ms[i].opponentSkill]],
            LAMBDA e : e.first)

LowestSkillOpp(a) ==
  LET u == UniqueMatchups(a.opponentMatchups)
      sorted == StableSort(u, [i \in 1..Len(u) |-> u[i].m.opponentSkill])
      top == Take(sorted, 3)
  IN [i \in 1..Len(top) |-> WithSkill(a, top[i].m)]

HighestSkillOpp(a) ==
  LET u == UniqueMatchups(a.opponentMatchups)
      sorted == StableSort(u, [i \in 1..Len(u) |-> 0 - u[i].m.opponentSkill])
      top == Take(sorted, 3)
  IN [i \in 1..Len(top) |-> WithSkill(a, top[i].m)]

Slide4(a) ==
  LET sortedMatchups == SortByDate(a.opponentMatchups)
  IN [type |-> "rivals",
      mostPlayed |-> Take(SortedOpponents(a), 3),
      seasonOpener |-> WithSkill(a, sortedMatchups[1]),
      seasonCloser |-> WithSkill(a, sortedMatchups[Len(sortedMatchups)]),
      lowestSkillOpp |-> LowestSkillOpp(a),
      highestSkillOpp |-> HighestSkillOpp(a)]

(***************************************************************************)
(* calculateArchetypeScores.  A score is kept as the exact fraction        *)
(* num / den; the counts a template string embeds are the fields x and y   *)
(* and, where the text shows a rounded percentage, pct.  With at most 12   *)
(* records the doubles the code computes compare and round as the exact    *)
(* fractions do.                                                           *)
(***************************************************************************)
Archetype(name, num, den, x, y, pct) ==
  [name |-> name, num |-> num, den |-> den, x |-> x, y |-> y, pct |-> pct]

\* if (sub.length > 0) push({score: wins / sub.length * 100,
\*   explanation: `Won ${wins} out of ${sub.length} ... (${round}% win rate)`})
RateArchetypeAlways(name, sub) ==
  LET wins == CountWhere(sub, TRUE)
      n == IF Len(sub) > 0 THEN Len(sub) ELSE 1
  IN <<Archetype(name, 100 * wins, n, wins, Len(sub), RoundInt(100 * wins, n))>>

RateArchetypeOtherTotal(name, sub) ==
  LET wins == CountWhere(sub, TRUE)
  IN IF Len(sub) > 0
     THEN <<Archetype(name, 100 * wins, Len(sub), wins, Len(sub) + 1,
                      RoundInt(100 * wins, Len(sub)))>>
     ELSE <<>>

RateArchetype(name, sub) ==
  LET wins == CountWhere(sub, TRUE)
  IN IF Len(sub) > 0
     THEN <<Archetype(name, 100 * wins, Len(sub), wins, Len(sub),
                      RoundInt(100 * wins, Len(sub)))>>
     ELSE <<>>

\* the number of matches with the given outcome and score pair
CountScore(matches, isWin, playerScore, opponentScore) ==
  Cardinality({i \in 1..Len(matches) :
                 /\ matches[i].isWin = isWin
                 /\ matches[i].playerScore = playerScore
                 /\ matches[i].opponentScore = opponentScore})

SkillClimber(matches) ==
  IF Len(matches) > 0
  THEN LET startingSkill == matches[1].playerSkill
           endingSkill == matches[Len(matches)].playerSkill
       IN <<Archetype("The Skill Climber",
                      Max2(0, (endingSkill - startingSkill) * 20), 1,
                      startingSkill, endingSkill, 0)>>
  ELSE <<>>

StreakMaster(matches) ==
  LET longestStreak == LongestWinStreak(matches)
      capped == IF longestStreak * 10 < 100 THEN longestStreak * 10 ELSE 100
  IN <<Archetype("The Streak Master", capped, 1, longestStreak, 0, 0)>>

CloseCall(matches) ==
  LET closeWins == CountScore(matches, TRUE, 2, 1)
      decisiveWins == CountScore(matches, TRUE, 2, 0)
                        + CountScore(matches, TRUE, 3, 0)
  IN IF Len(matches) > 0 /\ closeWins > decisiveWins /\ closeWins > 0
     THEN <<Archetype("The Close Call", 100 * closeWins,
                      closeWins + decisiveWins, closeWins, decisiveWins, 0)>>
     ELSE <<>>

CloseButNoCigar(matches) ==
  LET closeLosses == CountScore(matches, FALSE, 1, 2)
      decisiveLosses == CountScore(matches, FALSE, 0, 2)
                          + CountScore(matches, FALSE, 0, 3)
  IN IF Len(matches) > 0 /\ closeLosses > decisiveLosses /\ closeLosses > 0
     THEN <<Archetype("The Close But No Cigar", 100 * closeLosses,
                      closeLosses + decisiveLosses, closeLosses,
                      decisiveLosses, 0)>>
     ELSE <<>>

AllGasNoBreaks(matches) ==
  LET sweepCount == CountScore(matches, TRUE, 3, 0)
                      + CountScore(matches, FALSE, 0, 3)
  IN IF Len(matches) > 0
     THEN <<Archetype("The All Gas No Breaks", 100 * sweepCount, Len(matches),
                      sweepCount, Len(matches),
                      RoundInt(100 * sweepCount, Len(matches)))>>
     ELSE <<>>

Grinder(matches) ==
  LET grinderMatches == CountScore(matches, TRUE, 2, 1)
                          + CountScore(matches, FALSE, 1, 2)
  IN IF Len(matches) > 0 /\ grinderMatches > 0
     THEN <<Archetype("The Grinder", 100 * grinderMatches, Len(matches),
                      grinderMatches, Len(matches),
                      RoundInt(100 * grinderMatches, Len(matches)))>>
     ELSE <<>>

\* the archetypes array before it is sorted, in the order of the pushes
AllArchetypes(matches) ==
  RateArchetype("The Closer",
    SelectSeq(matches, LAMBDA m : m.teamSituation = "team_winning"))
  \o RateArchetype("The Comeback Kid",
       SelectSeq(matches, LAMBDA m : m.teamSituation = "team_losing"))
  \o RateArchetype("The Anchor", SelectSeq(matches, LAMBDA m : m.position >= 4))
  \o RateArchetype("The Opener", SelectSeq(matches, LAMBDA m : m.position <= 2))
  \o RateArchetype("The Road Warrior", SelectSeq(matches, LAMBDA m : ~m.isHome))
  \o RateArchetype("The Home Hero", SelectSeq(matches, LAMBDA m : m.isHome))
  \o SkillClimber(matches)
  \o RateArchetype("The Underdog",
       SelectSeq(matches, LAMBDA m : m.skillDifference < 0))
  \o StreakMaster(matches)
  \o CloseCall(matches)
  \o CloseButNoCigar(matches)
  \o AllGasNoBreaks(matches)
  \o Grinder(matches)

\* archetypes.sort((a, b) => b.score - a.score): stable, by descending score
SortByScoreDesc(archs) ==
  LET Rank(i) == 1 + Cardinality({j \in 1..Len(archs) :
                     \/ archs[j].num * archs[i].den > archs[i].num * archs[j].den
                     \/ /\ archs[j].num * archs[i].den =
                             archs[i].num * archs[j].den
                        /\ j < i})
  IN [p \in 1..Len(archs) |-> archs[CHOOSE i \in 1..Len(archs) : Rank(i) = p]]

calculateArchetypeScoresUnsorted(matches) == Take(AllArchetypes(matches), 5)

calculateArchetypeScores(matches) ==
  Take(SortByScoreDesc(AllArchetypes(matches)), 5)

\* score: Math.round(arch.score * 10) / 10, kept in tenths
Slide5(a) ==
  LET archetypeScores == calculateArchetypeScores(a.allPlayerMatches)
  IN [type |-> "archetype",
      top5 |-> [i \in 1..Len(archetypeScores) |->
                  LET arch == archetypeScores[i]
                  IN [name |-> arch.name,
                      score |-> RoundInt(10 * arch.num, arch.den),
                      x |-> arch.x, y |-> arch.y, pct |-> arch.pct]]]

(***************************************************************************)
(* Slide 6.  A highlight string is kept as the rule that pushed it and the *)
(* values its template embeds.                                             *)
(***************************************************************************)
Highlight(rule, name, x, y) == [rule |-> rule, name |-> name, x |-> x, y |-> y]

\* if (longestWinStreak >= 3)
StreakHighlightFromTwo(longestWinStreak) == longestWinStreak >= 2

StreakHighlight(longestWinStreak) == longestWinStreak >= 3

\* if (winPercentage >= 70 && totalGames >= 5) ... else if (wins > 0) ...
WinHighlight(wins, games) ==
  IF games > 0 /\ 100 * wins >= 70 * games /\ games >= MinGames
  THEN <<Highlight("winRate", "", RoundInt(100 * wins, games), 0)>>
  ELSE IF wins > 0 THEN <<Highlight("wins", "", wins, 0)>>
  ELSE <<>>

\* opponentRecordList.filter(o => o.totalMatches >= 1 && o.wins > o.losses)
\*   .sort((a, b) => b.winPercentage - a.winPercentage)[0]
BeatHighlight(a) ==
  LET cands == SelectSeq(OpponentRecordList(a),
                 LAMBDA o : o.totalMatches >= 1 /\ o.wins > o.losses)
      sorted == StableSort(cands,
                  [i \in 1..Len(cands) |-> 0 - cands[i].winPercentage])
  IN IF Len(sorted) > 0 /\ sorted[1].wins >= 2
     THEN <<Highlight("beat", sorted[1].opponentName, sorted[1].wins,
                      sorted[1].losses)>>
     ELSE <<>>

PerfectHighlight(a) ==
  LET best == BestPosition(a)
  IN IF best.winPercentage = 1000 /\ best.wins >= 2
     THEN <<Highlight("perfect", "", best.wins, best.position)>>
     ELSE <<>>

DominantHighlight(a) ==
  LET bestLocations == Take(SortedLocations(a), 3)
  IN IF Len(bestLocations) > 0
        /\ bestLocations[1].winPercentage >= 800
        /\ bestLocations[1].wins >= 3
     THEN <<Highlight("dominant", bestLocations[1].location,
                      RoundInt(bestLocations[1].winPercentage, 10), 0)>>
     ELSE <<>>

\* the pushes of lines 864-905, in order
Top3Highlights(a) ==
  LET s1 == Slide1(a)
      h1 == IF StreakHighlight(s1.longestWinStreak)
            THEN <<Highlight("streak", "", s1.longestWinStreak, 0)>>
            ELSE <<>>
      h2 == h1 \o (IF s1.endingSkill > s1.startingSkill
                   THEN <<Highlight("skill", "", s1.startingSkill,
                                    s1.endingSkill)>>
                   ELSE <<>>)
      h3 == h2 \o WinHighlight(s1.wins, a.totalGames)
      h4 == h3 \o (IF Len(h3) < 3 THEN BeatHighlight(a) ELSE <<>>)
      h5 == h4 \o (IF Len(h4) < 3 THEN PerfectHighlight(a) ELSE <<>>)
      h6 == h5 \o (IF Len(h5) < 3 THEN DominantHighlight(a) ELSE <<>>)
      h7 == h6 \o (IF Len(h6) < 3 /\ a.totalGames >= 10
                   THEN <<Highlight("played", "", a.totalGames, 0)>>
                   ELSE <<>>)
  IN h7

FunStat(a) ==
  LET uniqueLocations ==
        Cardinality({a.allPlayerMatches[i].location :
                       i \in 1..Len(a.allPlayerMatches)})
      uniqueOpponents ==
        Cardinality({a.allPlayerMatches[i].opponentName :
                       i \in 1..Len(a.allPlayerMatches)})
  IN IF uniqueLocations > 1
     THEN [kind |-> "locations", count |-> uniqueLocations]
     ELSE [kind |-> "opponents", count |-> uniqueOpponents]

Slide6(a) ==
  [type |-> "summary", top3Highlights |-> Take(Top3Highlights(a), 3),
   funStat |-> FunStat(a)]

\* slides = [slide0, slide1]; if (slide2) push(slide2); push(slide3..slide6)
BuildSlides(a) ==
  <<Slide0(a), Slide1(a)>>
  \o (IF HasTeamSlide(a.filteredTeams) THEN <<Slide2(a)>> ELSE <<>>)
  \o <<Slide3(a), Slide4(a), Slide5(a), Slide6(a)>>

\* if (totalGames < 5) throw
BelowMinimumInclusive(n) == n <= MinGames

BelowMinimum(n) == n < MinGames

WFinish ==
  /\ pc = "check"
  /\ IF BelowMinimum(totalGames)
     THEN /\ pc' = "failed"
          /\ result' = Failure("Minimum 5 matches required")
          /\ UNCHANGED allPlayerMatches
     ELSE LET a == Sorted(Locals)
          IN /\ allPlayerMatches' = a.allPlayerMatches
             /\ pc' = "done"
             /\ result' = [status |-> "ok", error |-> "",
                           slides |-> BuildSlides(a)]
  /\ UNCHANGED <<request, apaTeams, filteredTeams, playerIdByTeam, ti, mi,
                 match, playerMatch, counters, totalGames, skillLevels,
                 teamStats, locationStats, positionStats, opponentRecords,
                 opponentMatchups, listCalls, detailCalls, fetched>>
  /\ UNCHANGED reportVars
  /\ UNCHANGED errors
  /\ UNCHANGED suspended
  /\ UNCHANGED serverVars

(***************************************************************************)
(* handleReportGet and generateReport.  The report folds the matches of    *)
(* matchesByTeam, team by team, in the order in which they were fetched;   *)
(* a match whose fetch or conversion failed is not in matchesByTeam.  The  *)
(* loops reuse the names of the handler above: filteredTeams is the        *)
(* function's teams, and match, playerMatch and the two counters are its   *)
(* locals of the same names.                                               *)
(***************************************************************************)
InningsBucket(innings) ==
  IF innings <= 10 THEN "0-10"
  ELSE IF innings <= 20 THEN "11-20"
  ELSE IF innings <= 30 THEN "21-30"
  ELSE "30+"

\* stats.scoreDistribution[scoreKey]++
BumpScore(dist, key) ==
  LET d == IF HasKey(dist, key) THEN dist
           ELSE Append(dist, [key |-> key, count |-> 0])
  IN [i \in 1..Len(d) |->
        IF d[i].key = key THEN [d[i] EXCEPT !.count = @ + 1] ELSE d[i]]

RStart(teams) ==
  /\ pc = "idle"
  /\ apaTeams' = teams
  /\ filteredTeams' = [k \in 1..Len(teams) |-> apaTeamToTeam(teams[k], k)]
  /\ playerIdByTeam' = BuildPlayerIdByTeam(teams, filteredTeams', <<>>)
  /\ IF Len(teams) = 0
     THEN /\ pc' = "rdone"
          /\ ti' = 0
          /\ result' = [status |-> "report", error |-> "", slides |-> <<>>]
     ELSE /\ pc' = "rteam"
          /\ ti' = 1
          /\ UNCHANGED result
  /\ UNCHANGED <<request, mi, match, playerMatch, counters, aggregates,
                 reportVars, listCalls, detailCalls, fetched>>
  /\ UNCHANGED errors
  /\ UNCHANGED suspended
  /\ UNCHANGED serverVars

\* the next match of matchesByTeam[team.id]: the counters start at 0
RMatch(apaMatch) ==
  /\ pc = "rteam"
  /\ detailCalls < MaxMatches
  /\ detailCalls' = detailCalls + 1
  /\ mi' = mi + 1
  /\ match' = apaMatchToMatch(apaMatch)
  /\ playerMatch' = NoPlayerMatch
  /\ homeTeamScoreUpToNow' = 0
  /\ awayTeamScoreUpToNow' = 0
  /\ pc' = "rgames"
  /\ UNCHANGED <<request, apaTeams, filteredTeams, playerIdByTeam, ti,
                 aggregates, result, reportVars, listCalls, fetched>>
  /\ UNCHANGED errors
  /\ UNCHANGED suspended
  /\ UNCHANGED serverVars

\* one iteration of the game loop of generateReport
RGame(row) ==
  /\ pc = "rgames"
  /\ row.matchPositionNumber > playerMatch.matchOrder
  /\ fetched' = fetched + 1
  /\ LET pm == apaMatchToPlayerMatch(row)
         team == filteredTeams[ti]
         pid == PlayerIdOf(playerIdByTeam, team.id)
         isPlayerHome == pm.homePlayerStats.id = pid
         isPlayerAway == pm.awayPlayerStats.id = pid
     IN /\ playerMatch' = pm
        /\ IF RIsSkipped(isPlayerHome, isPlayerAway)
           THEN /\ IF RSkippedHomeWon(pm)
                   THEN /\ homeTeamScoreUpToNow' = homeTeamScoreUpToNow + 1
                        /\ UNCHANGED awayTeamScoreUpToNow
                   ELSE /\ awayTeamScoreUpToNow' = awayTeamScoreUpToNow + 1
                        /\ UNCHANGED homeTeamScoreUpToNow
                /\ UNCHANGED reportVars
           ELSE LET playerStats == IF isPlayerHome THEN pm.homePlayerStats
                                   ELSE pm.awayPlayerStats
                    opponentStats == IF isPlayerHome THEN pm.awayPlayerStats
                                     ELSE pm.homePlayerStats
                    playerScore == OrNum(playerStats.score, 0)
                    opponentScore == OrNum(opponentStats.score, 0)
                    isWin == playerScore > opponentScore
                    isLoss == playerScore < opponentScore
                    sessionKey == <<team.season, team.seasonYear>>
                    opponentName == OrStr(opponentStats.name, "Unknown")
                    position == pm.matchOrder
                    location == OrStr(match.location, "Unknown")
                    scoreKey == <<playerScore, opponentScore>>
                    playerSkill == OrNum(playerStats.skillLevel, 0)
                    opponentSkill == OrNum(opponentStats.skillLevel, 0)
                    skillDifference == playerSkill - opponentSkill
                    inningsBucket == InningsBucket(OrNum(playerStats.innings, 0))
                    teamSituation == RTeamSituation(isPlayerHome,
                                       homeTeamScoreUpToNow, awayTeamScoreUpToNow)
                IN /\ totalMatches' = totalMatches + 1
                   /\ report' =
                        [overallWins |->
                           report.overallWins + (IF isWin THEN 1 ELSE 0),
                         overallLosses |->
                           report.overallLosses + (IF isLoss THEN 1 ELSE 0),
                         bySession |->
                           Bump(report.bySession, sessionKey, isWin, isLoss),
                         headToHead |->
                           Bump(report.headToHead, opponentName, isWin, isLoss),
                         byPosition |->
                           BumpInt(report.byPosition, position, isWin, isLoss),
                         byLocation |->
                           Bump(report.byLocation, location, isWin, isLoss),
                         scoreDistribution |->
                           BumpScore(report.scoreDistribution, scoreKey),
                         bySkillDifference |->
                           BumpInt(report.bySkillDifference, skillDifference,
                                   isWin, isLoss),
                         byOpponentSkill |->
                           BumpInt(report.byOpponentSkill, opponentSkill,
                                   isWin, isLoss),
                         byMySkill |->
                           BumpInt(report.byMySkill, playerSkill, isWin, isLoss),
                         byInnings |->
                           Bump(report.byInnings, inningsBucket, isWin, isLoss),
                         byTeamSituation |->
                           Bump(report.byTeamSituation, teamSituation,
                                isWin, isLoss)]
                   /\ IF RTrackedBumpsHome(isWin, isPlayerHome)
                      THEN /\ homeTeamScoreUpToNow' = homeTeamScoreUpToNow + 1
                           /\ UNCHANGED awayTeamScoreUpToNow
                      ELSE /\ awayTeamScoreUpToNow' = awayTeamScoreUpToNow + 1
                           /\ UNCHANGED homeTeamScoreUpToNow
  /\ UNCHANGED <<pc, request, apaTeams, filteredTeams, playerIdByTeam, ti, mi,
                 match, aggregates, result, listCalls, detailCalls>>
  /\ UNCHANGED errors
  /\ UNCHANGED suspended
  /\ UNCHANGED serverVars

\* the game loop of the match is over
RMatchEnd ==
  /\ pc = "rgames"
  /\ pc' = "rteam"
  /\ match' = NoMatch
  /\ playerMatch' = NoPlayerMatch
  /\ homeTeamScoreUpToNow' = 0
  /\ awayTeamScoreUpToNow' = 0
  /\ UNCHANGED <<request, apaTeams, filteredTeams, playerIdByTeam, ti, mi,
                 aggregates, result, reportVars, listCalls, detailCalls,
                 fetched>>
  /\ UNCHANGED errors
  /\ UNCHANGED suspended
  /\ UNCHANGED serverVars

\* the team has no further match: the next team, or the report is returned
RTeamEnd ==
  /\ pc = "rteam"
  /\ IF ti < Len(filteredTeams)
     THEN /\ ti' = ti + 1
          /\ mi' = 0
          /\ UNCHANGED <<pc, result>>
     ELSE /\ pc' = "rdone"
          /\ result' = [status |-> "report", error |-> "", slides |-> <<>>]
          /\ UNCHANGED <<ti, mi>>
  /\ UNCHANGED <<request, apaTeams, filteredTeams, playerIdByTeam, match,
                 playerMatch, counters, aggregates, reportVars, listCalls,
                 detailCalls, fetched>>
  /\ UNCHANGED errors
  /\ UNCHANGED suspended
  /\ UNCHANGED serverVars

(***************************************************************************)
(* The environment: what the callers ask and what the provider answers.    *)
(***************************************************************************)
Req(kind, season, year) == [season |-> season, year |-> year, kind |-> kind]

ApaTeam(teamId, session, playerId, name) ==
  [name |-> name, session |-> session, id |-> playerId, teamId |-> teamId]

TeamFall25 == ApaTeam("101", <<"Fall", "2025">>, "p1", "Rack Pack")
TeamSpring25 == ApaTeam("102", <<"Spring", "2025">>, "p2", "Cue Crew")
TeamWinter25 == ApaTeam("103", <<"Winter", "2025">>, "p3", "Chalk Talk")
TeamFall24 == ApaTeam("104", <<"Fall", "2024">>, "p4", "Rack Pack")
TeamSummer25 == ApaTeam("105", <<"Summer", "2025">>, "p5", "Side Pocket")

\* the sequences of distinct teams of a pool
TeamLists(pool) ==
  UNION {{s \in [1..n -> pool] : \A i, j \in 1..n : i # j => s[i] # s[j]} :
         n \in 0..Cardinality(pool)}

\* the matches scheduled so far, over the teams already visited
RECURSIVE Scheduled(_)
Scheduled(teams) ==
  IF teams = <<>> THEN 0
  ELSE Len(Head(teams).matchIds) + Scheduled(Tail(teams))

\* the provider answers getMatchesForTeam with a schedule of some length
WList == \E n \in 0..(MaxMatches - Scheduled(filteredTeams)) : WFetchList(n)

ScoreIn(playerId, displayName, skillLevel, points, innings) ==
  [playerId |-> playerId, displayName |-> displayName,
   skillLevel |-> skillLevel, eightBallMatchPointsEarned |-> points,
   innings |-> innings]

Score(playerId, displayName, skillLevel, points) ==
  ScoreIn(playerId, displayName, skillLevel, points, 12)

Row(pos, home, away) ==
  [matchPositionNumber |-> pos, home |-> home, away |-> away]

\* plain games of the team whose tracked player is pid, at position pos
PlainGames(pid, pos) ==
  {Row(pos, Score(pid, "Me", 4, 3), Score("x", "Ann", 5, 0)),
   Row(pos, Score("x", "Ann", 5, 2), Score(pid, "Me", 4, 1)),
   Row(pos, Score("y", "Bob", 3, 2), Score("x", "Ann", 5, 0))}

PlainMatches == {[startTime |-> 1, location |-> "Hill Bar"]}

Requests == {Req("default", <<>>, 0), Req("year", <<>>, 2025)}

CurrentPid == PlayerIdOf(playerIdByTeam, filteredTeams[ti].id)

\* the provider serves the next row of the match, at most cap rows a request
WServePlain ==
  /\ pc = "games"
  /\ fetched < MaxFetched
  /\ \E row \in PlainGames(CurrentPid, playerMatch.matchOrder + 1) : WGame(row)

Next ==
  \/ \E req \in Requests, teams \in TeamLists({TeamFall25, TeamSpring25}) :
       WStart(req, teams)
  \/ WList
  \/ WMatchFail
  \/ \E m \in PlainMatches : WMatchStart(m)
  \/ WServePlain
  \/ WMatchEnd
  \/ WFinish

Spec == Init /\ [][Next]_vars

(***************************************************************************)
(* The same handler with detailed games: every side, a decisive, a tied    *)
(* and a partly missing score, a named and an anonymous opponent.          *)
(***************************************************************************)
ScorePairs == {<<3, 0>>, <<1, 2>>, <<NULL, NULL>>}

DetailedGames(pid, pos) ==
  UNION {{Row(pos, Score(pid, "Me", 4, sc[1]), Score("x", "Ann", 5, sc[2])),
          Row(pos, Score("x", "Ann", 5, sc[1]), Score(pid, "Me", 4, sc[2])),
          Row(pos, Score("y", "Bob", 3, sc[1]), Score("x", "Ann", 5, sc[2]))} :
         sc \in ScorePairs}
  \cup {Row(pos, ScoreIn(pid, "Me", NULL, 2, NULL), Score("z", "", 0, NULL)),
        Row(pos, Score("z", "", 0, 2), ScoreIn(pid, "Me", NULL, NULL, 25))}

DetailedMatches ==
  {[startTime |-> 1, location |-> "Hill Bar"], [startTime |-> 2, location |-> ""]}

WServeDetailed ==
  /\ pc = "games"
  /\ fetched < MaxDeep
  /\ \E row \in DetailedGames(CurrentPid, playerMatch.matchOrder + 1) :
       WGame(row)

RServeDetailed ==
  /\ pc = "rgames"
  /\ fetched < MaxDeep
  /\ \E row \in DetailedGames(CurrentPid, playerMatch.matchOrder + 1) :
       RGame(row)

NextGames ==
  \/ \E teams \in TeamLists({TeamFall25}) : WStart(Req("default", <<>>, 0), teams)
  \/ WList
  \/ WMatchFail
  \/ \E m \in DetailedMatches : WMatchStart(m)
  \/ WServeDetailed
  \/ WMatchEnd
  \/ WFinish
  \/ \E teams \in TeamLists({TeamFall25}) : RStart(teams)
  \/ \E m \in DetailedMatches : RMatch(m)
  \/ RServeDetailed
  \/ RMatchEnd
  \/ RTeamEnd

SpecGames == Init /\ [][NextGames]_vars

(***************************************************************************)
(* The same handler with every kind of request over a wider set of         *)
(* team-seasons.                                                           *)
(***************************************************************************)
SeasonRequests ==
  {Req("default", <<>>, 0),
   Req("season", <<"Fall", "2025">>, 0),
   Req("season", <<"Spring", "2025">>, 0),
   Req("season", <<"Winter", "2025">>, 0),
   Req("season", <<"Early", "Fall", "2024">>, 0),
   Req("season", <<"Fall">>, 0),
   Req("year", <<>>, 2025),
   Req("year", <<>>, 2024)}

SeasonPool ==
  {TeamFall25, TeamSpring25, TeamSummer25, TeamWinter25, TeamFall24}

SeasonTeamLists == {s \in TeamLists(SeasonPool) : Len(s) <= MaxTeams}

\* every game is a win of the tracked player at home
SeasonGames(pid, pos) ==
  {Row(pos, Score(pid, "Me", 4, 3), Score("x", "Ann", 5, 0))}

WServeSeason ==
  /\ pc = "games"
  /\ fetched < MaxFetched
  /\ \E row \in SeasonGames(CurrentPid, playerMatch.matchOrder + 1) : WGame(row)

NextSeason ==
  \/ \E req \in SeasonRequests, teams \in SeasonTeamLists : WStart(req, teams)
  \/ WList
  \/ WMatchFail
  \/ \E m \in PlainMatches : WMatchStart(m)
  \/ WServeSeason
  \/ WMatchEnd
  \/ WFinish

SpecSeason == Init /\ [][NextSeason]_vars

(***************************************************************************)
(* Skill progression: a year request over a Fall and a Spring team, whose  *)
(* matches carry two dates and whose rows carry the tracked player at two  *)
(* skill levels.                                                           *)
(***************************************************************************)
SkillGames(pid, pos) ==
  {Row(pos, Score(pid, "Me", 2, 3), Score("x", "Ann", 5, 0)),
   Row(pos, Score(pid, "Me", 4, 3), Score("x", "Ann", 5, 0))}

SkillMatches ==
  {[startTime |-> 1, location |-> "Hill Bar"],
   [startTime |-> 2, location |-> "Hill Bar"]}

WServeSkill ==
  /\ pc = "games"
  /\ fetched < MaxFetched
  /\ \E row \in SkillGames(CurrentPid, playerMatch.matchOrder + 1) : WGame(row)

NextSkill ==
  \/ \E teams \in {<<TeamFall25>>, <<TeamSpring25, TeamFall25>>} :
       WStart(Req("year", <<>>, 2025), teams)
  \/ WList
  \/ WMatchFail
  \/ \E m \in SkillMatches : WMatchStart(m)
  \/ WServeSkill
  \/ WMatchEnd
  \/ WFinish

SpecSkill == Init /\ [][NextSkill]_vars

(***************************************************************************)
(* calculateArchetypeScores on its own.  The function is pure: it is       *)
(* applied to a list of records built one record at a time from the        *)
(* record kinds below.  allPlayerMatches holds the argument and result      *)
(* the archetype slide computed from the value returned.                   *)
(***************************************************************************)
MaxArch == 6      \* records in the argument of calculateArchetypeScores

ArchRecord(playerScore, opponentScore, position, teamSituation, isHome, playerSkill, opponentSkill) ==
  [isWin |-> playerScore > opponentScore, date |-> 1,
   playerSkill |-> playerSkill, opponentSkill |-> opponentSkill,
   skillDifference |-> playerSkill - opponentSkill,
   position |-> position, location |-> "Hill Bar",
   teamSituation |-> teamSituation, isHome |-> isHome, teamId |-> 1,
   teamName |-> "Rack Pack", opponentName |-> "Ann",
   playerScore |-> playerScore, opponentScore |-> opponentScore]

ArchRecords ==
  {ArchRecord(3, 0, 1, "team_tied", TRUE, 4, 5),
   ArchRecord(2, 1, 3, "team_winning", TRUE, 4, 5),
   ArchRecord(0, 3, 4, "team_losing", FALSE, 4, 3),
   ArchRecord(1, 2, 3, "team_tied", FALSE, 5, 5),
   ArchRecord(2, 0, 2, "team_losing", FALSE, 3, 3)}

\* one more record at the end of the argument
ArchPush(rec) ==
  /\ pc \in {"idle", "arch"}
  /\ Len(allPlayerMatches) < MaxArch
  /\ pc' = "arch"
  /\ allPlayerMatches' = Append(allPlayerMatches, rec)
  /\ UNCHANGED <<request, apaTeams, filteredTeams, playerIdByTeam, ti, mi,
                 match, playerMatch, counters, totalGames, skillLevels,
                 teamStats, locationStats, positionStats, opponentRecords,
                 opponentMatchups, result>>
  /\ UNCHANGED reportVars
  /\ UNCHANGED envVars
  /\ UNCHANGED suspended
  /\ UNCHANGED serverVars

\* the call, and the rounding of lines 848-854
ArchScore ==
  /\ pc = "arch"
  /\ pc' = "scored"
  /\ result' = [status |-> "ok", error |-> "", slides |-> <<Slide5(Locals)>>]
  /\ UNCHANGED <<request, apaTeams, filteredTeams, playerIdByTeam, ti, mi,
                 match, playerMatch, counters, totalGames, skillLevels,
                 teamStats, locationStats, positionStats, opponentRecords,
                 opponentMatchups, allPlayerMatches>>
  /\ UNCHANGED reportVars
  /\ UNCHANGED envVars
  /\ UNCHANGED suspended
  /\ UNCHANGED serverVars

NextArch ==
  \/ \E rec \in ArchRecords : ArchPush(rec)
  \/ ArchScore

SpecArch == Init /\ [][NextArch]_vars

(***************************************************************************)
(* A long season: one team, two matches, up to MaxLong games.  The rows    *)
(* vary where the streak, the skill progression and the highlights depend  *)
(* on them: the opening game is won at skill 3 or 4 or lost, the second is *)
(* won, the third and fourth are won or lost, the later ones are lost;     *)
(* the opponent changes with the position.                                 *)
(***************************************************************************)
MaxLong == 10     \* game rows served during one request (long season)

LongGames(pid, pos) ==
  IF pos = 1
  THEN {Row(pos, Score(pid, "Me", 3, 3), Score("a", "Ann", 5, 0)),
        Row(pos, Score(pid, "Me", 4, 3), Score("a", "Ann", 5, 0)),
        Row(pos, Score(pid, "Me", 3, 0), Score("a", "Ann", 5, 3))}
  ELSE IF pos = 2
  THEN {Row(pos, Score(pid, "Me", 4, 2), Score("b", "Bob", 5, 1))}
  ELSE IF pos = 3
  THEN {Row(pos, Score(pid, "Me", 4, 2), Score("c", "Cy", 5, 1)),
        Row(pos, Score("c", "Cy", 5, 2), Score(pid, "Me", 4, 1))}
  ELSE IF pos = 4
  THEN {Row(pos, Score(pid, "Me", 4, 3), Score("d", "Dee", 5, 0)),
        Row(pos, Score("d", "Dee", 5, 3), Score(pid, "Me", 4, 0))}
  ELSE {Row(pos, Score("d", "Dee", 5, 3), Score(pid, "Me", 4, 0))}

LongMatches ==
  {[startTime |-> 1, location |-> "Hill Bar"],
   [startTime |-> 2, location |-> "Hill Bar"]}

\* the team's schedule has two matches
WListLong == WFetchList(2)

WServeLong ==
  /\ pc = "games"
  /\ fetched < MaxLong
  /\ \E row \in LongGames(CurrentPid, playerMatch.matchOrder + 1) : WGame(row)

NextLong ==
  \/ WStart(Req("default", <<>>, 0), <<TeamFall25>>)
  \/ WListLong
  \/ WMatchFail
  \/ \E m \in LongMatches : WMatchStart(m)
  \/ WServeLong
  \/ WMatchEnd
  \/ WFinish

SpecLong == Init /\ [][NextLong]_vars

(***************************************************************************)
(* Two invocations of handleWrappedGet.  An async function runs until it   *)
(* awaits; the event loop then resumes whichever invocation has its answer *)
(* ready.  The variables above are the locals of the invocation that runs, *)
(* suspended holds those of the one that waits; the provider and the       *)
(* console are common to both.  Each team has two matches of one date; the *)
(* opening game of a match is won or lost, the later ones are won.         *)
(***************************************************************************)
MaxTwo == 10      \* game rows served to the two invocations together

AwaitPoints == {"idle", "list", "detail"}

\* the running invocation awaits or has settled; the waiting one resumes
\* with its own locals, and a module-level totalGames would stay
ResumeSharedTotal ==
  /\ pc \in AwaitPoints \cup {"done", "failed"}
  /\ suspended.pc \in AwaitPoints
  /\ suspended' = Frame
  /\ pc' = suspended.pc
  /\ request' = suspended.request
  /\ apaTeams' = suspended.apaTeams
  /\ filteredTeams' = suspended.filteredTeams
  /\ playerIdByTeam' = suspended.playerIdByTeam
  /\ ti' = suspended.ti
  /\ mi' = suspended.mi
  /\ match' = suspended.match
  /\ playerMatch' = suspended.playerMatch
  /\ homeTeamScoreUpToNow' = suspended.homeTeamScoreUpToNow
  /\ awayTeamScoreUpToNow' = suspended.awayTeamScoreUpToNow
  /\ UNCHANGED totalGames
  /\ skillLevels' = suspended.skillLevels
  /\ teamStats' = suspended.teamStats
  /\ locationStats' = suspended.locationStats
  /\ positionStats' = suspended.positionStats
  /\ opponentRecords' = suspended.opponentRecords
  /\ opponentMatchups' = suspended.opponentMatchups
  /\ allPlayerMatches' = suspended.allPlayerMatches
  /\ result' = suspended.result
  /\ UNCHANGED reportVars
  /\ UNCHANGED envVars
  /\ UNCHANGED serverVars

Resume ==
  /\ pc \in AwaitPoints \cup {"done", "failed"}
  /\ suspended.pc \in AwaitPoints
  /\ suspended' = Frame
  /\ pc' = suspended.pc
  /\ request' = suspended.request
  /\ apaTeams' = suspended.apaTeams
  /\ filteredTeams' = suspended.filteredTeams
  /\ playerIdByTeam' = suspended.playerIdByTeam
  /\ ti' = suspended.ti
  /\ mi' = suspended.mi
  /\ match' = suspended.match
  /\ playerMatch' = suspended.playerMatch
  /\ homeTeamScoreUpToNow' = suspended.homeTeamScoreUpToNow
  /\ awayTeamScoreUpToNow' = suspended.awayTeamScoreUpToNow
  /\ totalGames' = suspended.totalGames
  /\ skillLevels' = suspended.skillLevels
  /\ teamStats' = suspended.teamStats
  /\ locationStats' = suspended.locationStats
  /\ positionStats' = suspended.positionStats
  /\ opponentRecords' = suspended.opponentRecords
  /\ opponentMatchups' = suspended.opponentMatchups
  /\ allPlayerMatches' = suspended.allPlayerMatches
  /\ result' = suspended.result
  /\ UNCHANGED reportVars
  /\ UNCHANGED envVars
  /\ UNCHANGED serverVars

TwoGames(pid, pos) ==
  IF pos = 1
  THEN {Row(pos, Score(pid, "Me", 4, 3), Score("x", "Ann", 5, 0)),
        Row(pos, Score("x", "Ann", 5, 2), Score(pid, "Me", 4, 1))}
  ELSE {Row(pos, Score(pid, "Me", 4, 3), Score("x", "Ann", 5, 0))}

\* the team's schedule has two matches
WListTwo == WFetchList(2)

WServeTwo ==
  /\ pc = "games"
  /\ fetched < MaxTwo
  /\ \E row \in TwoGames(CurrentPid, playerMatch.matchOrder + 1) : WGame(row)

NextTwo ==
  \/ WStart(Req("default", <<>>, 0), <<TeamFall25>>)
  \/ WListTwo
  \/ WMatchFail
  \/ \E m \in PlainMatches : WMatchStart(m)
  \/ WServeTwo
  \/ WMatchEnd
  \/ WFinish
  \/ Resume

SpecTwo == Init /\ [][NextTwo]_vars

(***************************************************************************)
(* rateLimitMiddleware.  The middleware runs from its first line to        *)
(* `await next()` without awaiting anything, so the look-up and the update *)
(* of one request are one step; the handler behind next() answers later,   *)
(* while other requests arrive.  Time is counted in units of 30 seconds;   *)
(* the limits of the routes are kept small: LimitWrapped stands for the 10 *)
(* requests a minute of /api/wrapped/get, LimitDefault for the 60 of a     *)
(* route without an entry of its own.                                      *)
(***************************************************************************)
MaxRequests == 4  \* requests received
MaxClock == 4     \* latest time of a request
LimitWrapped == 2
LimitDefault == 3

\* RATE_LIMIT_WINDOW = 60 * 1000 ms
RateLimitWindow == 2

\* RATE_LIMITS[path] || RATE_LIMITS.default
RateLimits(path) ==
  IF path = "/api/wrapped/get" THEN LimitWrapped ELSE LimitDefault

IsNewWindowInclusive(record, time) ==
  record = NoRecord \/ time >= record.resetAt

\* !record || now > record.resetAt
IsNewWindow(record, time) == record = NoRecord \/ time > record.resetAt

\* a request from ip for path goes through the middleware
Arrive(ip, path) ==
  LET key == <<ip, path>>
      limit == RateLimits(path)
      record == rateLimitStore[key]
      passes == IsNewWindow(record, now) \/ record.count < limit
      open == windows[key]
      opens == open = NoRecord \/ now > open.resetAt
      reached == IF passes THEN 1 ELSE 0
  IN /\ arrived < MaxRequests
     /\ arrived' = arrived + 1
     /\ IF IsNewWindow(record, now)
        THEN /\ rateLimitStore' =
                  [rateLimitStore EXCEPT
                     ![key] = [count |-> 1, resetAt |-> now + RateLimitWindow]]
             /\ inFlight' = [inFlight EXCEPT ![key] = @ + 1]
             /\ response' = [key |-> key, status |-> 200]
        ELSE IF record.count >= limit
        THEN /\ response' = [key |-> key, status |-> 429]
             /\ UNCHANGED <<rateLimitStore, inFlight>>
        ELSE /\ rateLimitStore' =
                  [rateLimitStore EXCEPT ![key].count = @ + 1]
             /\ inFlight' = [inFlight EXCEPT ![key] = @ + 1]
             /\ response' = [key |-> key, status |-> 200]
     /\ windows' =
          [windows EXCEPT
             ![key] = IF opens
                      THEN [count |-> reached,
                            resetAt |-> now + RateLimitWindow]
                      ELSE [open EXCEPT !.count = @ + reached]]
     /\ UNCHANGED now
     /\ UNCHANGED <<handlerVars, clientVars>>

\* the handler behind next() answers a request
Answer(key) ==
  /\ inFlight[key] > 0
  /\ inFlight' = [inFlight EXCEPT ![key] = @ - 1]
  /\ UNCHANGED <<rateLimitStore, now, windows, arrived, response>>
  /\ UNCHANGED <<handlerVars, clientVars>>

\* the setInterval callback: expired entries are deleted
Cleanup ==
  /\ rateLimitStore' =
       [key \in Keys |->
          IF rateLimitStore[key] # NoRecord /\ now > rateLimitStore[key].resetAt
          THEN NoRecord ELSE rateLimitStore[key]]
  /\ UNCHANGED <<now, inFlight, windows, arrived, response>>
  /\ UNCHANGED <<handlerVars, clientVars>>

\* time passes
Tick ==
  /\ now < MaxClock
  /\ now' = now + 1
  /\ UNCHANGED <<rateLimitStore, inFlight, windows, arrived, response>>
  /\ UNCHANGED <<handlerVars, clientVars>>

NextLimit ==
  \/ \E ip \in Ips, path \in Paths : Arrive(ip, path)
  \/ \E key \in Keys : Answer(key)
  \/ Cleanup
  \/ Tick

SpecLimit == Init /\ [][NextLimit]_vars

(***************************************************************************)
(* APAClient.makeGraphQLRequest with getAuthHeaders, generateAccessToken   *)
(* and login.  One call is followed from await to await; what the provider *)
(* answers is the environment's choice.  The client object is shared, so   *)
(* other calls may set or clear the two tokens in between.                 *)
(***************************************************************************)
MaxSends == 3     \* times the query is sent
MaxMeddle == 2    \* token changes by other calls

Settled == cpc \in {"returned", "thrown"}

\* this.currentAuthToken = null; this.deviceRefreshToken = null
ClearTokens ==
  /\ currentAuthToken' = NoToken
  /\ deviceRefreshToken' = NoToken

\* await fetch("https://gql.poolplayers.com/graphql", ...) with the query
Send ==
  /\ fetches < MaxSends
  /\ fetches' = fetches + 1
  /\ cpc' = "sent"

\* this.login(username, password) is called on behalf of who
CallLogin(who) ==
  /\ logins' = logins + 1
  /\ caller' = who
  /\ cpc' = "login"

\* login threw: getAuthHeaders throws "Error logging in", the re-login
\* throws "Re-login failed"
LoginThrew == cpc' = "thrown"

ShouldRetryAlways(isTokenExpired, count) == isTokenExpired

\* isTokenExpired && retryCount === 0
ShouldRetry(isTokenExpired, count) == isTokenExpired /\ count = 0

\* makeGraphQLRequest(query, variables, operationName) is called on a
\* client holding the tokens access and refresh
Call(access, refresh) ==
  /\ cpc = "idle"
  /\ currentAuthToken' = access
  /\ deviceRefreshToken' = refresh
  /\ retryCount' = 0
  /\ cpc' = "headers"
  /\ UNCHANGED <<caller, reply, fetches, logins, meddled>>
  /\ UNCHANGED <<handlerVars, limiterVars>>

\* getAuthHeaders up to its first await; with a token the headers are built
\* and the query is sent
Headers ==
  /\ cpc = "headers"
  /\ IF currentAuthToken # NoToken
     THEN /\ Send
          /\ UNCHANGED <<caller, logins>>
     ELSE IF deviceRefreshToken = NoToken
     THEN \* generateAccessToken throws "No refresh token available"
          /\ CallLogin("headers")
          /\ UNCHANGED fetches
     ELSE /\ cpc' = "token"
          /\ UNCHANGED <<caller, logins, fetches>>
  /\ UNCHANGED <<retryCount, currentAuthToken, deviceRefreshToken, reply,
                 meddled>>
  /\ UNCHANGED <<handlerVars, limiterVars>>

\* the answer to generateAccessToken called by getAuthHeaders
Token(answer) ==
  /\ cpc = "token"
  /\ IF answer = "data"
     THEN /\ currentAuthToken' = "token"
          /\ cpc' = "ready"
          /\ UNCHANGED <<deviceRefreshToken, caller, logins>>
     ELSE /\ IF answer = "expired" THEN ClearTokens
             ELSE UNCHANGED <<currentAuthToken, deviceRefreshToken>>
          /\ CallLogin("headers")
  /\ UNCHANGED <<retryCount, reply, fetches, meddled>>
  /\ UNCHANGED <<handlerVars, limiterVars>>

\* the answers to the login and authorize requests of login
Login(answer) ==
  /\ cpc = "login"
  /\ IF answer = "data"
     THEN /\ deviceRefreshToken' = "token"
          /\ cpc' = "logintoken"
     ELSE /\ LoginThrew
          /\ UNCHANGED deviceRefreshToken
  /\ UNCHANGED <<retryCount, currentAuthToken, caller, reply, fetches,
                 logins, meddled>>
  /\ UNCHANGED <<handlerVars, limiterVars>>

\* generateAccessToken at the end of login
LoginToken(answer) ==
  /\ cpc = "logintoken"
  /\ IF deviceRefreshToken = NoToken
     THEN /\ LoginThrew
          /\ UNCHANGED <<currentAuthToken, deviceRefreshToken, retryCount>>
     ELSE IF answer = "data"
     THEN /\ currentAuthToken' = "token"
          /\ UNCHANGED deviceRefreshToken
          /\ IF caller = "relogin"
             THEN /\ retryCount' = retryCount + 1
                  /\ cpc' = "headers"
             ELSE /\ cpc' = "ready"
                  /\ UNCHANGED retryCount
     ELSE /\ IF answer = "expired" THEN ClearTokens
             ELSE UNCHANGED <<currentAuthToken, deviceRefreshToken>>
          /\ LoginThrew
          /\ UNCHANGED retryCount
  /\ UNCHANGED <<caller, reply, fetches, logins, meddled>>
  /\ UNCHANGED <<handlerVars, limiterVars>>

\* getAuthHeaders after its awaits: "No auth token available", or the
\* headers are built and the query is sent
Ready ==
  /\ cpc = "ready"
  /\ IF currentAuthToken = NoToken
     THEN /\ cpc' = "thrown"
          /\ UNCHANGED fetches
     ELSE Send
  /\ UNCHANGED <<retryCount, currentAuthToken, deviceRefreshToken, caller,
                 reply, logins, meddled>>
  /\ UNCHANGED <<handlerVars, limiterVars>>

Answers == {"data", "expired", "error", "nodata", "reject"}

\* the provider's answer to the query: data, a token-expired error, another
\* error, neither data nor errors, or the fetch is rejected
Receive(answer) ==
  /\ cpc = "sent"
  /\ reply' = answer
  /\ IF answer = "data"
     THEN /\ cpc' = "returned"
          /\ UNCHANGED <<currentAuthToken, deviceRefreshToken, caller, logins>>
     ELSE IF answer \in {"expired", "error"}
             /\ ShouldRetry(answer = "expired", retryCount)
     THEN /\ ClearTokens
          /\ CallLogin("relogin")
     ELSE /\ cpc' = "thrown"
          /\ UNCHANGED <<currentAuthToken, deviceRefreshToken, caller, logins>>
  /\ UNCHANGED <<retryCount, fetches, meddled>>
  /\ UNCHANGED <<handlerVars, limiterVars>>

\* another call on the same client sets or clears the tokens
Meddle(access, refresh) ==
  /\ cpc \in {"token", "login", "logintoken", "ready", "sent"}
  /\ meddled < MaxMeddle
  /\ meddled' = meddled + 1
  /\ currentAuthToken' = access
  /\ deviceRefreshToken' = refresh
  /\ UNCHANGED <<cpc, retryCount, caller, reply, fetches, logins>>
  /\ UNCHANGED <<handlerVars, limiterVars>>

\* the steps of the call itself
ClientStep ==
  \/ \E access, refresh \in Tokens : Call(access, refresh)
  \/ Headers
  \/ \E answer \in Answers : Token(answer)
  \/ \E answer \in Answers : Login(answer)
  \/ \E answer \in Answers : LoginToken(answer)
  \/ Ready
  \/ \E answer \in Answers : Receive(answer)

NextClient ==
  \/ \E access, refresh \in Tokens : Call(access, refresh)
  \/ Headers
  \/ \E answer \in Answers : Token(answer)
  \/ \E answer \in Answers : Login(answer)
  \/ \E answer \in Answers : LoginToken(answer)
  \/ Ready
  \/ \E answer \in Answers : Receive(answer)
  \/ \E access, refresh \in Tokens : Meddle(access, refresh)

\* every awaited request is answered or rejected and the continuation runs
SpecClient == Init /\ [][NextClient]_vars /\ WF_vars(ClientStep)

(***************************************************************************)
(* Percentages: one or two teams, each with no match or with two matches   *)
(* of up to three games, so that buckets of three and of six games and a   *)
(* team without any game occur.                                            *)
(***************************************************************************)
MaxPct == 6       \* game rows served during one request (percentages)

WListPct == \E n \in {0, 2} : WFetchList(n)

WServePct ==
  /\ pc = "games"
  /\ fetched < MaxPct
  /\ \E row \in PlainGames(CurrentPid, playerMatch.matchOrder + 1) : WGame(row)

NextPct ==
  \/ \E teams \in TeamLists({TeamFall25, TeamSpring25}) :
       WStart(Req("year", <<>>, 2025), teams)
  \/ WListPct
  \/ \E m \in PlainMatches : WMatchStart(m)
  \/ WServePct
  \/ WMatchEnd
  \/ WFinish

SpecPct == Init /\ [][NextPct]_vars

(***************************************************************************)
(* Drawn games: one team with two matches whose games are won, lost or     *)
(* end with equal scores.                                                  *)
(***************************************************************************)
MaxTie == 5       \* game rows served during one request (drawn games)

TieGames(pid, pos) ==
  {Row(pos, Score(pid, "Me", 4, 3), Score("x", "Ann", 5, 0)),
   Row(pos, Score("x", "Ann", 5, 2), Score(pid, "Me", 4, 1)),
   Row(pos, Score(pid, "Me", 4, 2), Score("x", "Ann", 5, 2))}

WListTie == WFetchList(2)

WServeTie ==
  /\ pc = "games"
  /\ fetched < MaxTie
  /\ \E row \in TieGames(CurrentPid, playerMatch.matchOrder + 1) : WGame(row)

NextTie ==
  \/ WStart(Req("default", <<>>, 0), <<TeamFall25>>)
  \/ WListTie
  \/ \E m \in PlainMatches : WMatchStart(m)
  \/ WServeTie
  \/ WMatchEnd
  \/ WFinish

SpecTie == Init /\ [][NextTie]_vars

(***************************************************************************)
(* Both handlers over one provider database: the caller asks for the       *)
(* wrapped slides and then for the report.  The provider answers from a    *)
(* fixed schedule per team; a game is written as a code: the tracked       *)
(* player wins, loses or draws at home ("W", "L", "T") or away ("w", "l",  *)
(* "t"), or two others play with a home win ("S") or a draw ("s").         *)
(***************************************************************************)
Schedule(apaId) ==
  IF apaId = "101"
  THEN <<[startTime |-> 1, location |-> "Hill Bar",
          games |-> <<"S", "W", "t", "l">>]>>
  ELSE IF apaId = "102"
  THEN <<[startTime |-> 2, location |-> "",
          games |-> <<"l", "s", "W", "T">>]>>
  ELSE IF apaId = "103"
  THEN <<[startTime |-> 3, location |-> "Corner Pub",
          games |-> <<"W", "t", "S", "l">>],
         [startTime |-> 4, location |-> "Hill Bar",
          games |-> <<"w", "T", "L">>]>>
  ELSE <<>>

Rival(pos) == IF pos = 1 THEN "Ann" ELSE IF pos = 2 THEN "Bob" ELSE ""

ScheduledRow(pid, code, pos) ==
  LET me(points) == Score(pid, "Me", 4, points)
      rival(points) == Score("x", Rival(pos), 5, points)
      third(points) == Score("y", "Yan", 3, points)
  IN IF code = "W" THEN Row(pos, me(3), rival(0))
     ELSE IF code = "L" THEN Row(pos, me(1), rival(2))
     ELSE IF code = "T" THEN Row(pos, me(2), rival(2))
     ELSE IF code = "w" THEN Row(pos, rival(0), me(3))
     ELSE IF code = "l" THEN Row(pos, rival(2), me(1))
     ELSE IF code = "t" THEN Row(pos, rival(NULL), me(NULL))
     ELSE IF code = "S" THEN Row(pos, third(3), rival(0))
     ELSE Row(pos, third(2), rival(2))

CurrentSchedule == Schedule(filteredTeams[ti].apaId)

\* the row of the current match after the one just read
NextRow ==
  LET games == CurrentSchedule[mi].games
      pos == playerMatch.matchOrder + 1
  IN ScheduledRow(CurrentPid, games[pos], pos)

MatchOver == playerMatch.matchOrder = Len(CurrentSchedule[mi].games)

WListBoth == pc = "list" /\ WFetchList(Len(CurrentSchedule))

WMatchStartBoth ==
  /\ pc = "detail"
  /\ WMatchStart([startTime |-> CurrentSchedule[mi].startTime,
                  location |-> CurrentSchedule[mi].location])

WServeBoth == pc = "games" /\ ~MatchOver /\ WGame(NextRow)

WMatchEndBoth == pc = "games" /\ MatchOver /\ WMatchEnd

RMatchBoth ==
  /\ pc = "rteam"
  /\ mi < Len(CurrentSchedule)
  /\ RMatch([startTime |-> CurrentSchedule[mi + 1].startTime,
             location |-> CurrentSchedule[mi + 1].location])

RServeBoth == pc = "rgames" /\ ~MatchOver /\ RGame(NextRow)

RMatchEndBoth == pc = "rgames" /\ MatchOver /\ RMatchEnd

RTeamEndBoth == pc = "rteam" /\ mi = Len(CurrentSchedule) /\ RTeamEnd

\* the wrapped request is over: its locals are kept aside, the locals of
\* the next request are fresh, and the provider counts its calls anew
Handover ==
  /\ pc \in {"done", "failed"}
  /\ suspended.pc = "idle"
  /\ suspended' = Frame
  /\ pc' = suspended.pc
  /\ request' = suspended.request
  /\ apaTeams' = suspended.apaTeams
  /\ filteredTeams' = suspended.filteredTeams
  /\ playerIdByTeam' = suspended.playerIdByTeam
  /\ ti' = suspended.ti
  /\ mi' = suspended.mi
  /\ match' = suspended.match
  /\ playerMatch' = suspended.playerMatch
  /\ homeTeamScoreUpToNow' = suspended.homeTeamScoreUpToNow
  /\ awayTeamScoreUpToNow' = suspended.awayTeamScoreUpToNow
  /\ totalGames' = suspended.totalGames
  /\ skillLevels' = suspended.skillLevels
  /\ teamStats' = suspended.teamStats
  /\ locationStats' = suspended.locationStats
  /\ positionStats' = suspended.positionStats
  /\ opponentRecords' = suspended.opponentRecords
  /\ opponentMatchups' = suspended.opponentMatchups
  /\ allPlayerMatches' = suspended.allPlayerMatches
  /\ result' = suspended.result
  /\ listCalls' = 0
  /\ detailCalls' = 0
  /\ fetched' = 0
  /\ UNCHANGED errors
  /\ UNCHANGED reportVars
  /\ UNCHANGED serverVars

BothPool == {TeamFall25, TeamSpring25, TeamWinter25}

NextBoth ==
  \/ \E teams \in TeamLists(BothPool) : WStart(Req("year", <<>>, 2025), teams)
  \/ WListBoth
  \/ WMatchStartBoth
  \/ WServeBoth
  \/ WMatchEndBoth
  \/ WFinish
  \/ Handover
  \/ \E teams \in TeamLists(BothPool) : RStart(teams)
  \/ RMatchBoth
  \/ RServeBoth
  \/ RMatchEndBoth
  \/ RTeamEndBoth

SpecBoth == Init /\ [][NextBoth]_vars

(***************************************************************************)
(* Places and positions: one team whose four matches are played at up to   *)
(* four locations.  The opening game of a match is won, lost or played by  *)
(* two other players, the second is won or lost, the third is won; the     *)
(* opponent changes with the position.                                     *)
(***************************************************************************)
MaxPlace == 8     \* game rows served during one request (places)

PlaceGames(pid, pos) ==
  IF pos = 1
  THEN {Row(pos, Score(pid, "Me", 4, 3), Score("a", "Ann", 5, 0)),
        Row(pos, Score("a", "Ann", 5, 2), Score(pid, "Me", 4, 1)),
        Row(pos, Score("y", "Yan", 3, 2), Score("z", "Zoe", 5, 0))}
  ELSE IF pos = 2
  THEN {Row(pos, Score(pid, "Me", 4, 2), Score("b", "Bob", 5, 1)),
        Row(pos, Score("b", "Bob", 5, 2), Score(pid, "Me", 4, 1))}
  ELSE IF pos = 3
  THEN {Row(pos, Score(pid, "Me", 4, 3), Score("c", "Cy", 5, 0))}
  ELSE {}

\* the details of the k-th match of the schedule
PlaceMatches(k) ==
  IF k = 1 THEN {[startTime |-> 1, location |-> "Hill Bar"]}
  ELSE IF k = 2 THEN {[startTime |-> 2, location |-> "Corner Pub"]}
  ELSE IF k = 3 THEN {[startTime |-> 3, location |-> "Elks Lodge"]}
  ELSE {[startTime |-> 4, location |-> "Side Door"],
        [startTime |-> 4, location |-> "Hill Bar"]}

\* the team's schedule has four matches
WListPlace == WFetchList(4)

WServePlace ==
  /\ pc = "games"
  /\ fetched < MaxPlace
  /\ \E row \in PlaceGames(CurrentPid, playerMatch.matchOrder + 1) : WGame(row)

NextPlace ==
  \/ WStart(Req("default", <<>>, 0), <<TeamFall25>>)
  \/ WListPlace
  \/ \E m \in PlaceMatches(mi) : WMatchStart(m)
  \/ WServePlace
  \/ WMatchEnd
  \/ WFinish

SpecPlace == Init /\ [][NextPlace]_vars

(***************************************************************************)
(* Properties.  The reference notions below are stated on the provider's   *)
(* payloads and on the recorded state, not through the operators of the    *)
(* handlers.                                                               *)
(***************************************************************************)
\* the request is being served by handleWrappedGet, past its selection
Selected == pc \in {"list", "detail", "games", "check", "done"}

\* the request went through the loops of handleWrappedGet to the check
Checked ==
  \/ pc = "done"
  \/ pc = "failed" /\ Len(filteredTeams) > 0

\* a step that processes one game row
GameStep == fetched' = fetched + 1

\* the sides of the current game, read from the payload ids
TrackedAtHome(pm) == pm.homePlayerStats.id = CurrentPid

TrackedAway(pm) ==
  pm.awayPlayerStats.id = CurrentPid /\ pm.homePlayerStats.id # CurrentPid

Involved(pm) == TrackedAtHome(pm) \/ TrackedAway(pm)

\* game scores, a missing score counting 0
HomePoints(pm) == ToNumber(pm.homePlayerStats.score)

AwayPoints(pm) == ToNumber(pm.awayPlayerStats.score)

HomeBumped ==
  /\ homeTeamScoreUpToNow' = homeTeamScoreUpToNow + 1
  /\ awayTeamScoreUpToNow' = awayTeamScoreUpToNow

AwayBumped ==
  /\ awayTeamScoreUpToNow' = awayTeamScoreUpToNow + 1
  /\ homeTeamScoreUpToNow' = homeTeamScoreUpToNow

Tally(stats, key) ==
  IF HasKey(stats, key)
  THEN stats[IndexOf(stats, key)].wins + stats[IndexOf(stats, key)].losses
  ELSE 0

RECURSIVE SumTally(_)
SumTally(stats) ==
  IF stats = <<>> THEN 0
  ELSE Head(stats).wins + Head(stats).losses + SumTally(Tail(stats))

Last(s) == s[Len(s)]

SlideTypes == [i \in 1..Len(result.slides) |-> result.slides[i].type]

\* the season predicate of the request, on a provider team: the default is
\* Fall 2025; a season string selects its last word and year; a year selects
\* Spring, Summer and Fall of that year
WellFormed(req) ==
  req.kind = "season" =>
    /\ Len(req.season) >= 2
    /\ req.season[Len(req.season)] \in Numerals
    /\ \A i \in 1..(Len(req.season) - 1) : req.season[i] \notin Numerals

Satisfies(req, apaTeam) ==
  CASE req.kind = "season" ->
         apaTeam.session =
           <<req.season[Len(req.season) - 1], req.season[Len(req.season)]>>
    [] req.kind = "year" ->
         /\ ParseInt(apaTeam.session[2]) = req.year
         /\ apaTeam.session[1] \in {"Spring", "Summer", "Fall"}
    [] OTHER -> apaTeam.session = <<"Fall", "2025">>

SatisfyingIds(req, teams) ==
  {teams[i].teamId : i \in {j \in 1..Len(teams) : Satisfies(req, teams[j])}}

SatisfyingSeasons(req, teams) ==
  {<<teams[i].session[1], ParseInt(teams[i].session[2])>> :
     i \in {j \in 1..Len(teams) : Satisfies(req, teams[j])}}

SituationOf(own, other) ==
  IF own > other THEN "team_winning"
  ELSE IF own < other THEN "team_losing"
  ELSE "team_tied"

SituationBefore(pm) ==
  IF TrackedAtHome(pm)
  THEN SituationOf(homeTeamScoreUpToNow, awayTeamScoreUpToNow)
  ELSE SituationOf(awayTeamScoreUpToNow, homeTeamScoreUpToNow)

Covered(stats, Key(_)) ==
  /\ \A j \in 1..Len(allPlayerMatches) : HasKey(stats, Key(allPlayerMatches[j]))
  /\ \A i \in 1..Len(stats) :
       stats[i].wins + stats[i].losses =
         Cardinality({j \in 1..Len(allPlayerMatches) :
                        Key(allPlayerMatches[j]) = stats[i].key})

(***************************************************************************)
(* C1: once the loops are over, the request fails without any slide when   *)
(* totalGames is below 5 and returns slides when it is 5 or more.          *)
(***************************************************************************)
C1_Threshold ==
  Checked =>
    IF totalGames < 5
    THEN pc = "failed" /\ result.status = "error" /\ result.slides = <<>>
    ELSE pc = "done" /\ result.status = "ok" /\ Len(result.slides) >= 6

\* exactly 5 games succeed
C1_Witness == pc = "done" /\ totalGames = 5 /\ result.status = "ok"

(***************************************************************************)
(* C2: the team-situation of a game of the tracked player compares the     *)
(* counter of the player's side with the other one as they stand before    *)
(* the game is applied; the counters of a match start at 0, so its first   *)
(* game is team_tied.  In the report the label is the bucket key.          *)
(***************************************************************************)
C2_Situation ==
  [][/\ (pc' \in {"games", "rgames"} /\ pc \notin {"games", "rgames"}) =>
          homeTeamScoreUpToNow' = 0 /\ awayTeamScoreUpToNow' = 0
     /\ (GameStep /\ pc = "games" /\ Involved(playerMatch')) =>
          /\ Len(allPlayerMatches') = Len(allPlayerMatches) + 1
          /\ Last(allPlayerMatches').teamSituation = SituationBefore(playerMatch')
          /\ (playerMatch = NoPlayerMatch =>
                Last(allPlayerMatches').teamSituation = "team_tied")
     /\ (GameStep /\ pc = "rgames" /\ Involved(playerMatch')) =>
          /\ HasKey(report'.byTeamSituation, SituationBefore(playerMatch'))
          /\ \A k \in {"team_winning", "team_losing", "team_tied"} :
               k # SituationBefore(playerMatch') =>
                 Tally(report'.byTeamSituation, k) =
                   Tally(report.byTeamSituation, k)
          /\ (playerMatch = NoPlayerMatch =>
                SituationBefore(playerMatch') = "team_tied")
    ]_vars

\* an away player whose side is behind, and a home player whose side leads
C2_Witness ==
  /\ \E i \in 1..Len(allPlayerMatches) :
       ~allPlayerMatches[i].isHome
       /\ allPlayerMatches[i].teamSituation = "team_losing"
  /\ \E i \in 1..Len(allPlayerMatches) :
       allPlayerMatches[i].isHome
       /\ allPlayerMatches[i].teamSituation = "team_winning"

(***************************************************************************)
(* C3: a game of the tracked player bumps exactly one running counter, the *)
(* one of the side (home or away) whose player won the game.               *)
(***************************************************************************)
C3_WinnerSide ==
  [][(GameStep /\ Involved(playerMatch')) =>
       \/ HomeBumped /\ HomePoints(playerMatch') > AwayPoints(playerMatch')
       \/ AwayBumped /\ AwayPoints(playerMatch') > HomePoints(playerMatch')
    ]_vars

(***************************************************************************)
(* C4: a game between two other players emits no record, leaves every      *)
(* aggregate and totalGames alone, and bumps exactly one counter: the home *)
(* counter when the home score is strictly higher, else the away counter.  *)
(***************************************************************************)
C4_Skipped ==
  [][(GameStep /\ ~Involved(playerMatch')) =>
       /\ UNCHANGED aggregates
       /\ UNCHANGED reportVars
       /\ IF HomePoints(playerMatch') > AwayPoints(playerMatch')
          THEN HomeBumped ELSE AwayBumped
    ]_vars

\* a tied game between two others went to the away counter
C4_Witness ==
  /\ pc \in {"games", "rgames"}
  /\ playerMatch # NoPlayerMatch
  /\ ~Involved(playerMatch)
  /\ HomePoints(playerMatch) = AwayPoints(playerMatch)
  /\ awayTeamScoreUpToNow = 1
  /\ homeTeamScoreUpToNow = 0
  /\ fetched = 1

(***************************************************************************)
(* C5: in every dimension and for every key, a bucket's wins + losses is   *)
(* the number of per-game records with that key (in the report, which      *)
(* keeps no records: the buckets of a dimension add up to totalMatches).   *)
(***************************************************************************)
C5_Coverage ==
  /\ Covered(teamStats, LAMBDA m : m.teamId)
  /\ Covered(locationStats, LAMBDA m : m.location)
  /\ Covered(positionStats, LAMBDA m : m.position)
  /\ Covered(opponentRecords, LAMBDA m : m.opponentName)
  /\ \A d \in {"bySession", "headToHead", "byPosition", "byLocation",
               "bySkillDifference", "byOpponentSkill", "byMySkill",
               "byInnings", "byTeamSituation"} :
       SumTally(report[d]) = totalMatches

(***************************************************************************)
(* C6: a game row yields exactly one record when the tracked player is its *)
(* home or away player and none otherwise; no other step adds or removes   *)
(* a record; totalGames counts the records.                                *)
(***************************************************************************)
C6_OneRecord ==
  [][IF GameStep /\ pc = "games" /\ Involved(playerMatch')
     THEN /\ Len(allPlayerMatches') = Len(allPlayerMatches) + 1
          /\ SubSeq(allPlayerMatches', 1, Len(allPlayerMatches)) = allPlayerMatches
          /\ Last(allPlayerMatches').position = playerMatch'.matchOrder
          /\ Last(allPlayerMatches').isHome = TrackedAtHome(playerMatch')
          /\ totalGames' = Len(allPlayerMatches')
     ELSE /\ Len(allPlayerMatches') = Len(allPlayerMatches)
          /\ totalGames' = totalGames
          /\ totalGames' = Len(allPlayerMatches')
    ]_vars

\* three rows served, one of them between two other players
C6_Witness ==
  /\ pc = "games"
  /\ fetched = 3
  /\ totalGames = 2
  /\ Len(allPlayerMatches) = 2

(***************************************************************************)
(* C7: a failed match is caught: it adds no record and no win or loss to   *)
(* any aggregate (the bucket of the next team may open, empty) and the     *)
(* loops go on; at the check every schedule of a selected team has been    *)
(* requested and every match of it too; the request fails only below 5     *)
(* games.                                                                  *)
(***************************************************************************)
C7_FailedMatch ==
  /\ [][errors' # errors =>
          /\ errors' = errors + 1
          /\ UNCHANGED <<totalGames, skillLevels, locationStats,
                         positionStats, opponentRecords, opponentMatchups,
                         allPlayerMatches>>
          /\ SubSeq(teamStats', 1, Len(teamStats)) = teamStats
          /\ \A i \in 1..Len(teamStats') :
               i > Len(teamStats) =>
                 teamStats'[i].wins = 0 /\ teamStats'[i].losses = 0
          /\ UNCHANGED result
          /\ pc' \in {"detail", "list", "check"}
       ]_vars
  /\ [](Checked =>
          /\ listCalls = Len(filteredTeams)
          /\ detailCalls = Scheduled(filteredTeams)
          /\ (pc = "failed" => totalGames < 5))

\* a match failed and the request still succeeded
C7_Witness == pc = "done" /\ errors >= 1 /\ totalGames >= 5

(***************************************************************************)
(* C8: when no team-season satisfies the predicate the request fails with  *)
(* the no-teams error, before any schedule or match is requested and with  *)
(* no slide.                                                               *)
(***************************************************************************)
C8_NoTeams ==
  (pc \notin {"idle", "rteam", "rgames", "rdone"} /\ WellFormed(request)
   /\ SatisfyingIds(request, apaTeams) = {}) =>
    /\ pc = "failed"
    /\ result = Failure("No teams found")
    /\ listCalls = 0
    /\ detailCalls = 0

\* Fall 2025 and Spring 2025, asked for Winter 2025
C8_Witness ==
  /\ pc = "failed"
  /\ request = Req("season", <<"Winter", "2025">>, 0)
  /\ apaTeams = <<TeamFall25, TeamSpring25>>

(***************************************************************************)
(* C9: the teams the request works on, the team buckets and the teams of   *)
(* the records are exactly the team-seasons that satisfy the predicate.    *)
(***************************************************************************)
C9_Selection ==
  Selected =>
    /\ {filteredTeams[i].apaId : i \in 1..Len(filteredTeams)} =
         SatisfyingIds(request, apaTeams)
    /\ Len(filteredTeams) = Cardinality(SatisfyingIds(request, apaTeams))
    /\ {teamStats[i].key : i \in 1..Len(teamStats)} \subseteq
         {filteredTeams[i].id : i \in 1..Len(filteredTeams)}
    /\ \A j \in 1..Len(allPlayerMatches) :
         \E i \in 1..Len(filteredTeams) :
           allPlayerMatches[j].teamId = filteredTeams[i].id
    /\ (pc = "done" =>
          {teamStats[i].key : i \in 1..Len(teamStats)} =
            {filteredTeams[i].id : i \in 1..Len(filteredTeams)})
    /\ (pc = "done" /\ Len(filteredTeams) > 1 =>
          LET shown == result.slides[3].teams
          IN {<<shown[i].season, shown[i].seasonYear>> : i \in 1..Len(shown)} =
               SatisfyingSeasons(request, apaTeams))

\* a year request over a Winter and a Fall team of that year keeps the Fall
C9_Witness ==
  /\ pc = "done"
  /\ request.kind = "year"
  /\ Len(apaTeams) = 2
  /\ \E i \in 1..2 : apaTeams[i] = TeamWinter25
  /\ Len(filteredTeams) = 1
  /\ filteredTeams[1].season = "Fall"

(***************************************************************************)
(* C10: a successful result is welcome, record-summary, [team-breakdown],  *)
(* location/position-breakdown, rivals, archetype, summary, with the       *)
(* team-breakdown exactly when more than one team-season was selected.     *)
(***************************************************************************)
C10_SlideOrder ==
  pc = "done" =>
    SlideTypes =
      IF Cardinality(SatisfyingIds(request, apaTeams)) > 1
      THEN <<"welcome", "howdYouDo", "yourTeams", "happyPlace", "rivals",
             "archetype", "summary">>
      ELSE <<"welcome", "howdYouDo", "happyPlace", "rivals", "archetype",
             "summary">>

\* two selected teams: seven slides
C10_Witness == pc = "done" /\ Len(filteredTeams) = 2 /\ Len(result.slides) = 7

(***************************************************************************)
(* Processing a list of records in a given order: what the tracked branch  *)
(* of the game loop leaves in the locals when the teams are visited in the *)
(* order of teams and the records arrive in the order of recs.             *)
(***************************************************************************)
RECURSIVE EnsureTeams(_, _)
EnsureTeams(stats, teams) ==
  IF teams = <<>> THEN stats
  ELSE EnsureTeams(EnsureTeam(stats, Head(teams)), Tail(teams))

Track(a, r) ==
  LET isLoss == r.playerScore < r.opponentScore
  IN [a EXCEPT
        !.totalGames = @ + 1,
        !.skillLevels = Append(@, r.playerSkill),
        !.teamStats = Count(@, r.teamId, r.isWin, isLoss),
        !.locationStats = Bump(@, r.location, r.isWin, isLoss),
        !.positionStats = BumpInt(@, r.position, r.isWin, isLoss),
        !.opponentRecords = Bump(@, r.opponentName, r.isWin, isLoss),
        !.opponentMatchups = Append(@,
            [opponentName |-> r.opponentName, opponentSkill |-> r.opponentSkill,
             date |-> r.date, isWin |-> r.isWin]),
        !.allPlayerMatches = Append(@, r)]

RECURSIVE Replay(_, _)
Replay(teams, recs) ==
  IF recs = <<>>
  THEN [totalGames |-> 0, skillLevels |-> <<>>,
        teamStats |-> EnsureTeams(<<>>, teams), locationStats |-> <<>>,
        positionStats |-> <<>>, opponentRecords |-> <<>>,
        opponentMatchups |-> <<>>, allPlayerMatches |-> <<>>,
        filteredTeams |-> teams]
  ELSE Track(Replay(teams, SubSeq(recs, 1, Len(recs) - 1)), recs[Len(recs)])

\* the locals at the threshold check are the replay of the records
ReplayIsLocals ==
  pc = "check" => Replay(filteredTeams, allPlayerMatches) = Locals

\* the records fall into blocks: runs of records of one team and one date
\* (the games of a match, or of neighbouring matches of the same day)
BlockStarts(recs) ==
  {i \in 1..Len(recs) :
     i = 1 \/ recs[i].teamId # recs[i - 1].teamId
           \/ recs[i].date # recs[i - 1].date}

BlockOf(recs, i) == Cardinality({j \in BlockStarts(recs) : j <= i})

Block(recs, b) == SelectSeq([i \in 1..Len(recs) |->
                               [r |-> recs[i], b |-> BlockOf(recs, i)]],
                            LAMBDA e : e.b = b)

RECURSIVE ConcatBlocks(_, _, _)
ConcatBlocks(recs, order, k) ==
  IF k > Len(order) THEN <<>>
  ELSE LET blk == Block(recs, order[k])
       IN [i \in 1..Len(blk) |-> blk[i].r] \o ConcatBlocks(recs, order, k + 1)

BlockOrders(recs) ==
  LET n == Cardinality(BlockStarts(recs))
  IN {f \in [1..n -> 1..n] : \A i, j \in 1..n : i # j => f[i] # f[j]}

\* the records of a team stay together
TeamsTogether(recs) ==
  \A i, j, k \in 1..Len(recs) :
    (i < j /\ j < k /\ recs[i].teamId = recs[k].teamId) =>
      recs[j].teamId = recs[i].teamId

\* the teams in the order in which recs visits them, then the others
TeamOrderOf(teams, recs) ==
  LET FirstAt(t) ==
        IF \E i \in 1..Len(recs) : recs[i].teamId = t.id
        THEN CHOOSE i \in 1..Len(recs) :
               /\ recs[i].teamId = t.id
               /\ \A j \in 1..(i - 1) : recs[j].teamId # t.id
        ELSE Len(recs) + 1
  IN StableSort(teams, [i \in 1..Len(teams) |-> FirstAt(teams[i])])

\* what the slides say; the team-breakdown lists the teams in the order of
\* processing, so its records are compared as a set
Content(a) ==
  [welcome |-> Slide0(a), summary |-> Slide1(a),
   teams |-> {TeamRecord(a.teamStats[i]) : i \in 1..Len(a.teamStats)},
   places |-> Slide3(a), rivals |-> Slide4(a), archetypes |-> Slide5(a),
   highlights |-> Slide6(a)]

MinDate(recs) ==
  CHOOSE d \in {recs[i].date : i \in 1..Len(recs)} :
    \A i \in 1..Len(recs) : d <= recs[i].date

MaxDate(recs) ==
  CHOOSE d \in {recs[i].date : i \in 1..Len(recs)} :
    \A i \in 1..Len(recs) : d >= recs[i].date

SkillsAt(recs, d) ==
  {recs[i].playerSkill : i \in {j \in 1..Len(recs) : recs[j].date = d}}

(***************************************************************************)
(* C11: startingSkill of the record-summary is the tracked player's skill  *)
(* in the earliest-dated record and endingSkill the skill in the           *)
(* latest-dated one, whatever the order of processing.                     *)
(***************************************************************************)
C11_SkillByDate ==
  pc = "done" =>
    /\ result.slides[2].startingSkill \in
         SkillsAt(allPlayerMatches, MinDate(allPlayerMatches))
    /\ result.slides[2].endingSkill \in
         SkillsAt(allPlayerMatches, MaxDate(allPlayerMatches))

(***************************************************************************)
(* C12: processing the selected teams and their matches in another order,  *)
(* the games of a match staying in their order, gives the same slides.     *)
(***************************************************************************)
C12_OrderFree ==
  (pc = "check" /\ ~BelowMinimum(totalGames)) =>
    \A order \in BlockOrders(allPlayerMatches) :
      LET recs == ConcatBlocks(allPlayerMatches, order, 1)
          teams == TeamOrderOf(filteredTeams, recs)
      IN TeamsTogether(recs) =>
           Content(Sorted(Replay(teams, recs))) = Content(Sorted(Locals))

(***************************************************************************)
(* C20: highestSkill of the record-summary is the maximum of the tracked   *)
(* player's skill level over the per-game records.                         *)
(***************************************************************************)
C20_HighestSkill ==
  pc = "done" =>
    /\ \E i \in 1..Len(allPlayerMatches) :
         allPlayerMatches[i].playerSkill = result.slides[2].highestSkill
    /\ \A i \in 1..Len(allPlayerMatches) :
         allPlayerMatches[i].playerSkill <= result.slides[2].highestSkill

(***************************************************************************)
(* The archetype slide against the argument of calculateArchetypeScores.   *)
(***************************************************************************)
Scored == pc = "scored"

Top5 == result.slides[1].top5

Top5Names == {Top5[i].name : i \in 1..Len(Top5)}

\* the archetypes that were scored at all, with their exact scores
Emitted == AllArchetypes(allPlayerMatches)

\* the archetype table as the documentation lists it
DocumentedOrder ==
  <<"The Closer", "The Comeback Kid", "The Anchor", "The Opener",
    "The Road Warrior", "The Home Hero", "The Skill Climber", "The Underdog",
    "The Streak Master", "The All Gas No Breaks", "The Close Call",
    "The Close But No Cigar", "The Grinder">>

\* the order in which the function declares its archetypes
DeclaredOrder ==
  <<"The Closer", "The Comeback Kid", "The Anchor", "The Opener",
    "The Road Warrior", "The Home Hero", "The Skill Climber", "The Underdog",
    "The Streak Master", "The Close Call", "The Close But No Cigar",
    "The All Gas No Breaks", "The Grinder">>

PlaceIn(order, name) == CHOOSE i \in 1..Len(order) : order[i] = name

\* e1 ranks ahead of e2: a higher score, or the same score and an earlier
\* place in the order
Ahead(order, e1, e2) ==
  \/ e1.num * e2.den > e2.num * e1.den
  \/ /\ e1.num * e2.den = e2.num * e1.den
     /\ PlaceIn(order, e1.name) < PlaceIn(order, e2.name)

RankedBy(order) ==
  LET em == Emitted
      top == Top5
      listed == {top[i].name : i \in 1..Len(top)}
      at == [i \in 1..Len(top) |->
               em[CHOOSE k \in 1..Len(em) : em[k].name = top[i].name]]
  IN /\ Len(top) = (IF Len(em) < 5 THEN Len(em) ELSE 5)
     /\ listed \subseteq {em[k].name : k \in 1..Len(em)}
     /\ \A i \in 1..Len(top) :
          /\ \A j \in (i + 1)..Len(top) :
               /\ top[i].score >= top[j].score
               /\ Ahead(order, at[i], at[j])
          /\ \A k \in 1..Len(em) :
               em[k].name \notin listed => Ahead(order, at[i], em[k])

\* C13 (as stated): the archetype slide lists at most five archetypes, the
\* highest-scoring ones, by non-increasing score, and archetypes with equal
\* scores follow the documented table order (All Gas No Breaks before Close
\* Call and Close But No Cigar), also when the tie decides the fifth place.
C13_DocumentedOrder == Scored => RankedBy(DocumentedOrder)

\* C13 (amended): the same, with equal scores following the order in which
\* the function declares the archetypes: Close Call, then Close But No
\* Cigar, then All Gas No Breaks.
C13_DeclaredOrder == Scored => RankedBy(DeclaredOrder)

\* six records whose Close Call and All Gas No Breaks scores are both 2/3,
\* behind four archetypes at 100: the tie decides the fifth place
C13_Witness ==
  /\ Scored
  /\ Len(Top5) = 5
  /\ Top5[5].name = "The Close Call"
  /\ Top5[5].score = 667
  /\ \E k \in 1..Len(Emitted) :
       /\ Emitted[k].name = "The All Gas No Breaks"
       /\ Emitted[k].num * 3 = 200 * Emitted[k].den

SubsetArchetypes ==
  {"The Closer", "The Comeback Kid", "The Anchor", "The Opener",
   "The Road Warrior", "The Home Hero", "The Underdog"}

\* the record m belongs to the subset the archetype is scored on
Qualifies(name, m) ==
  CASE name = "The Closer" -> m.teamSituation = "team_winning"
    [] name = "The Comeback Kid" -> m.teamSituation = "team_losing"
    [] name = "The Anchor" -> m.position >= 4
    [] name = "The Opener" -> m.position <= 2
    [] name = "The Road Warrior" -> ~m.isHome
    [] name = "The Home Hero" -> m.isHome
    [] name = "The Underdog" -> m.playerSkill < m.opponentSkill
    [] OTHER -> TRUE

Qualifying(name) ==
  {k \in 1..Len(allPlayerMatches) : Qualifies(name, allPlayerMatches[k])}

\* C14: Closer, Comeback Kid, Anchor, Opener, Road Warrior, Home Hero and
\* Underdog are on the archetype slide only when at least one record is in
\* their subset, and then with the wins and the size of that subset; Opener
\* is absent without a record at position 1 or 2, Anchor without a record
\* at position 4 or higher.
C14_NonEmptySubset ==
  Scored =>
    \A i \in 1..Len(Top5) :
      Top5[i].name \in SubsetArchetypes =>
        /\ Qualifying(Top5[i].name) # {}
        /\ Top5[i].y = Cardinality(Qualifying(Top5[i].name))
        /\ Top5[i].x = Cardinality({k \in Qualifying(Top5[i].name) :
                                      allPlayerMatches[k].isWin})

\* six games, all at position 3, and fewer than five other archetypes:
\* neither Opener nor Anchor is listed
C14_Witness ==
  /\ Scored
  /\ Len(allPlayerMatches) = 6
  /\ \A k \in 1..Len(allPlayerMatches) : allPlayerMatches[k].position = 3
  /\ "The Opener" \notin Top5Names
  /\ "The Anchor" \notin Top5Names
  /\ "The Closer" \in Top5Names

\* the score the counts of an explanation stand for, in tenths
Recomputed(e) ==
  CASE e.name \in SubsetArchetypes -> RoundTenths(e.x, e.y)
    [] e.name = "The Skill Climber" -> 10 * Max2(0, (e.y - e.x) * 20)
    [] e.name = "The Streak Master" ->
         10 * (IF 10 * e.x < 100 THEN 10 * e.x ELSE 100)
    [] e.name \in {"The Close Call", "The Close But No Cigar"} ->
         RoundTenths(e.x, e.x + e.y)
    [] OTHER -> RoundTenths(e.x, e.y)

\* C16: for every archetype on the slide, the counts its explanation quotes
\* recompute, by the archetype's formula and rounded to one decimal, to the
\* score reported next to it.
C16_Explained ==
  Scored => \A i \in 1..Len(Top5) : Top5[i].score = Recomputed(Top5[i])

\* a share archetype and a subset archetype whose scores are not whole
\* percentages: scores that need the rounding
C16_Witness ==
  /\ Scored
  /\ \E i, j \in 1..Len(Top5) :
       /\ Top5[i].name \in {"The Grinder", "The All Gas No Breaks"}
       /\ Top5[i].score % 10 # 0
       /\ Top5[j].name \in SubsetArchetypes
       /\ Top5[j].score % 10 # 0

(***************************************************************************)
(* The streak and the highlights of a finished request.                    *)
(***************************************************************************)
Done == pc = "done" /\ result.status = "ok"

\* the slide of the given type
SlideOf(type) ==
  result.slides[CHOOSE i \in 1..Len(result.slides) :
                  result.slides[i].type = type]

\* the results of the games dated d, in the order of the list
ResultsAt(recs, d) ==
  LET at == SelectSeq(recs, LAMBDA r : r.date = d)
  IN [i \in 1..Len(at) |-> at[i].isWin]

\* recs is ordered by date, games of one date in the order they were recorded
DateOrdered(recs, recorded) ==
  /\ Len(recs) = Len(recorded)
  /\ \A i \in 1..Len(recs) : \A j \in (i + 1)..Len(recs) :
       recs[i].date <= recs[j].date
  /\ \A i \in 1..Len(recorded) :
       ResultsAt(recs, recorded[i].date) =
         ResultsAt(recorded, recorded[i].date)

\* the records i .. i+k-1 are wins
WinRun(recs, i, k) == \A j \in i..(i + k - 1) : recs[j].isWin

\* the length of the longest run of consecutive wins, 0 without a win
LongestRun(recs) ==
  CHOOSE k \in 0..Len(recs) :
    /\ \E i \in 1..(Len(recs) - k + 1) : WinRun(recs, i, k)
    /\ \A n \in (k + 1)..Len(recs) :
         \A i \in 1..(Len(recs) - n + 1) : ~WinRun(recs, i, n)

\* C15: longestWinStreak is the length of the longest run of consecutive wins
\* in the date-ordered record list (0 without a win); the Streak Master
\* archetype quotes the same N and scores min(100, 10 N); the value depends
\* on the date-ordered list only, which holds the recorded games whatever
\* the order they were processed in.
C15_Streak ==
  Done =>
    /\ DateOrdered(allPlayerMatches, opponentMatchups)
    /\ SlideOf("howdYouDo").longestWinStreak = LongestRun(allPlayerMatches)
    /\ \A i \in 1..Len(SlideOf("archetype").top5) :
         LET arch == SlideOf("archetype").top5[i]
             N == LongestRun(allPlayerMatches)
         IN arch.name = "The Streak Master" =>
              /\ arch.x = N
              /\ arch.score = 10 * (IF 10 * N < 100 THEN 10 * N ELSE 100)

\* the later match was processed first; once the games are ordered by date
\* a run of wins spans both matches, and there are more wins than the
\* longest run
C15_Witness ==
  /\ Done
  /\ opponentMatchups[1].date = 2
  /\ SlideOf("howdYouDo").longestWinStreak >= 2
  /\ SlideOf("howdYouDo").wins > SlideOf("howdYouDo").longestWinStreak
  /\ \E i \in 1..Len(allPlayerMatches) - 1 :
       /\ allPlayerMatches[i].date = 1 /\ allPlayerMatches[i].isWin
       /\ allPlayerMatches[i + 1].date = 2 /\ allPlayerMatches[i + 1].isWin

\* the opponents beaten more often than lost to; the first of those with the
\* highest win percentage
BestBeaten ==
  LET beaten == SelectSeq(opponentRecords, LAMBDA o : o.wins > o.losses)
  IN SelectSeq([i \in 1..Len(beaten) |->
                 [o |-> beaten[i],
                  top |-> \A j \in 1..Len(beaten) :
                            \/ WinPct(beaten[j].wins, beaten[j].losses)
                                 < WinPct(beaten[i].wins, beaten[i].losses)
                            \/ /\ WinPct(beaten[j].wins, beaten[j].losses)
                                    = WinPct(beaten[i].wins, beaten[i].losses)
                               /\ i <= j]],
               LAMBDA e : e.top)

\* the conditions of the seven highlight rules, in priority order
RuleHolds ==
  LET s1 == SlideOf("howdYouDo")
      s3 == SlideOf("happyPlace")
  IN <<s1.longestWinStreak >= 3,
       s1.endingSkill > s1.startingSkill,
       s1.wins > 0 \/ (s1.winPercentage >= 700 /\ totalGames >= 5),
       BestBeaten # <<>> /\ BestBeaten[1].o.wins >= 2,
       s3.bestPosition.winPercentage = 1000 /\ s3.bestPosition.wins >= 2,
       /\ s3.bestLocations # <<>>
       /\ s3.bestLocations[1].winPercentage >= 800
       /\ s3.bestLocations[1].wins >= 3,
       totalGames >= 10>>

\* the rule a highlight comes from
RuleOf(h) ==
  CASE h.rule = "streak" -> 1
    [] h.rule = "skill" -> 2
    [] h.rule \in {"winRate", "wins"} -> 3
    [] h.rule = "beat" -> 4
    [] h.rule = "perfect" -> 5
    [] h.rule = "dominant" -> 6
    [] h.rule = "played" -> 7

\* the rules whose condition holds with fewer than three higher-priority
\* rules included: the first three rules that hold
Included ==
  {k \in 1..7 : /\ RuleHolds[k]
                /\ Cardinality({j \in 1..(k - 1) : RuleHolds[j]}) < 3}

SkillGiven(v) == IF v = NULL \/ v = 0 THEN 3 ELSE v

PointsGiven(v) == IF v = NULL THEN 0 ELSE v

TrackedRow(row) ==
  row.home.playerId = CurrentPid \/ row.away.playerId = CurrentPid

OwnScore(row) ==
  IF row.home.playerId = CurrentPid THEN row.home ELSE row.away

OtherScore(row) ==
  IF row.home.playerId = CurrentPid THEN row.away ELSE row.home

\* the keys of the buckets that the step created or changed
Touched(old, new) ==
  {new[i].key : i \in {j \in 1..Len(new) :
                          \A k \in 1..Len(old) : old[k] # new[j]}}

\* what a game step does with the provider row it was given
DefaultsApplied ==
  pc \in {"games", "rgames"} =>
    \A row \in DetailedGames(CurrentPid, playerMatch.matchOrder + 1) :
      LET own == SkillGiven(OwnScore(row).skillLevel)
          opp == SkillGiven(OtherScore(row).skillLevel)
          mine == PointsGiven(OwnScore(row).eightBallMatchPointsEarned)
          theirs == PointsGiven(OtherScore(row).eightBallMatchPointsEarned)
      IN TrackedRow(row) =>
           /\ WGame(row) =>
                /\ Last(skillLevels') = own
                /\ Last(allPlayerMatches').playerSkill = own
                /\ Last(allPlayerMatches').opponentSkill = opp
                /\ Last(allPlayerMatches').skillDifference = own - opp
                /\ Last(opponentMatchups').opponentSkill = opp
                /\ Last(allPlayerMatches').playerScore = mine
                /\ Last(allPlayerMatches').opponentScore = theirs
           /\ RGame(row) =>
                /\ Touched(report.byMySkill, report'.byMySkill)
                     \subseteq {own}
                /\ HasKey(report'.byMySkill, own)
                /\ Touched(report.byOpponentSkill, report'.byOpponentSkill)
                     \subseteq {opp}
                /\ HasKey(report'.byOpponentSkill, opp)
                /\ Touched(report.bySkillDifference,
                           report'.bySkillDifference) \subseteq {own - opp}
                /\ HasKey(report'.bySkillDifference, own - opp)
                /\ HasKey(report'.scoreDistribution, <<mine, theirs>>)

\* C19: in the slide pipeline and in the report pipeline alike, a skill
\* level of 0 or a missing one counts as 3 in the skill differential, in the
\* by-own-skill and by-opponent-skill keys and in the skill progression, and
\* a missing score counts as 0.
C19_Defaults == [][DefaultsApplied]_vars

(***************************************************************************)
(* Two invocations side by side.                                           *)
(***************************************************************************)
\* the locals of a frame the slides are computed from
LocalsOf(f) ==
  [totalGames |-> f.totalGames, skillLevels |-> f.skillLevels,
   teamStats |-> f.teamStats, locationStats |-> f.locationStats,
   positionStats |-> f.positionStats, opponentRecords |-> f.opponentRecords,
   opponentMatchups |-> f.opponentMatchups,
   allPlayerMatches |-> f.allPlayerMatches, filteredTeams |-> f.filteredTeams]

\* the invocation of frame f stands where it would stand had it run alone
\* on the games it was served: its locals are the replay of its own records
\* and, once settled, its slides are those of that replay
AsAlone(f) ==
  /\ f.pc \in {"list", "detail", "games", "check", "done"} =>
       LocalsOf(f) = Replay(f.filteredTeams, f.allPlayerMatches)
  /\ f.pc = "done" =>
       f.result.slides =
         BuildSlides(Sorted(Replay(f.filteredTeams, f.allPlayerMatches)))
  /\ f.pc = "failed" => f.result.status = "error"

\* C18: two invocations of handleWrappedGet whose provider calls interleave
\* at the awaits each hold, and return, what they would alone: no counter,
\* bucket, record list or team object of one is read or written by the
\* other.
C18_Isolation == AsAlone(Frame) /\ AsAlone(suspended)

\* one invocation has returned its slides while the other waits for the
\* details of its second match with the games of the first one recorded
C18_Witness ==
  /\ pc = "done"
  /\ result.status = "ok"
  /\ suspended.pc = "detail"
  /\ suspended.totalGames >= 2
  /\ suspended.totalGames # totalGames
  /\ suspended.mi = 2

(***************************************************************************)
(* The happy-place slide against the location and position buckets.        *)
(***************************************************************************)
\* the win percentage of a bucket, in tenths, and its number of games
PctOf(e) == IF e.wins + e.losses > 0
            THEN ((2000 * e.wins) + (e.wins + e.losses))
                   \div (2 * (e.wins + e.losses))
            ELSE 0

GamesOf(e) == e.wins + e.losses

\* bucket e is preferred to bucket f as the best one: a higher percentage,
\* else more games; sign is 1 for the best bucket and -1 for the worst
Preferred(e, f, sign) ==
  \/ sign * PctOf(e) > sign * PctOf(f)
  \/ PctOf(e) = PctOf(f) /\ GamesOf(e) > GamesOf(f)

\* the bucket of stats that no bucket is preferred to, the earliest of those
Choice(stats, sign) ==
  stats[CHOOSE i \in 1..Len(stats) :
          /\ \A j \in 1..Len(stats) : ~Preferred(stats[j], stats[i], sign)
          /\ \A j \in 1..(i - 1) : Preferred(stats[i], stats[j], sign)]

\* C21: bestPosition is a position bucket with the maximal win percentage,
\* worstPosition one with the minimal win percentage; among buckets tied on
\* that percentage the one with more games is chosen, and among those
\* still tied the earliest.
C21_BestWorstPosition ==
  Done =>
    /\ SlideOf("happyPlace").bestPosition.position =
         Choice(positionStats, 1).key
    /\ SlideOf("happyPlace").worstPosition.position =
         Choice(positionStats, 0 - 1).key

\* the position buckets with a 100% win rate and at least two wins
PerfectPositions ==
  {i \in 1..Len(positionStats) :
     positionStats[i].losses = 0 /\ positionStats[i].wins >= 2}

\* C22: when rules 1-4 have produced fewer than three highlights and some
\* position bucket has a 100% win rate with at least two wins, the summary
\* has a highlight "Perfect N-0 record at position P" for such a bucket,
\* N being its wins.
C22_PerfectPosition ==
  (/\ Done
   /\ Cardinality({k \in 1..4 : RuleHolds[k]}) < 3
   /\ PerfectPositions # {}) =>
    \E h \in 1..Len(SlideOf("summary").top3Highlights) :
      \E i \in PerfectPositions :
        /\ SlideOf("summary").top3Highlights[h].rule = "perfect"
        /\ SlideOf("summary").top3Highlights[h].x = positionStats[i].wins
        /\ SlideOf("summary").top3Highlights[h].y = positionStats[i].key

\* location record e ranks strictly ahead of f: a higher win percentage,
\* else more games
Outranks(e, f) ==
  \/ e.winPercentage > f.winPercentage
  \/ e.winPercentage = f.winPercentage /\ e.totalMatches > f.totalMatches

\* the location buckets as the slide reports them
LocationReports ==
  {[location |-> locationStats[i].key, wins |-> locationStats[i].wins,
    losses |-> locationStats[i].losses,
    winPercentage |-> PctOf(locationStats[i]),
    totalMatches |-> GamesOf(locationStats[i])] : i \in 1..Len(locationStats)}

\* list holds k different location reports, ranked, and the locations left
\* out rank no better (sign 1) or no worse (sign -1) than the listed ones
TopOfRanking(list, k, sign) ==
  /\ Len(list) = k
  /\ \A i \in 1..k : list[i] \in LocationReports
  /\ \A i \in 1..k : \A j \in (i + 1)..k :
       /\ list[i].location # list[j].location
       /\ IF sign = 1 THEN ~Outranks(list[j], list[i])
          ELSE ~Outranks(list[i], list[j])
  /\ \A e \in LocationReports :
       (\A i \in 1..k : list[i].location # e.location) =>
         \A i \in 1..k :
           IF sign = 1 THEN ~Outranks(e, list[i]) ELSE ~Outranks(list[i], e)

\* C23: with n location buckets ranked by win percentage descending, then
\* games descending, bestLocations is the first min(3, n) of the ranking and
\* worstLocations the last min(3, n) in reverse: the lists are equally
\* long, worstLocations[0] is the last-ranked location, and for n <= 3
\* worstLocations is bestLocations reversed.
C23_BestWorstLocations ==
  Done =>
    LET best == SlideOf("happyPlace").bestLocations
        worst == SlideOf("happyPlace").worstLocations
        n == Len(locationStats)
        k == IF n < 3 THEN n ELSE 3
    IN /\ TopOfRanking(best, k, 1)
       /\ TopOfRanking(worst, k, 0 - 1)
       /\ n <= 3 => \A i \in 1..k : worst[i] = best[k + 1 - i]

\* four locations with different records: the best and the worst three
\* overlap in two locations
C23_Witness ==
  /\ Done
  /\ Len(locationStats) = 4
  /\ LET best == SlideOf("happyPlace").bestLocations
         worst == SlideOf("happyPlace").worstLocations
     IN /\ Outranks(best[1], best[2])
        /\ Outranks(best[3], worst[1])
        /\ worst[3] = best[2]
        /\ worst[2] = best[3]

\* the elements of a sequence
Elements(s) == {s[i] : i \in 1..Len(s)}

\* the win/loss bucket records a successful result reports
Reported ==
  LET of(type, pick(_)) ==
        UNION {pick(result.slides[i]) :
                 i \in {j \in 1..Len(result.slides) :
                          result.slides[j].type = type}}
      teams(s) == Elements(s.teams) \cup {s.bestTeam}
      places(s) == Elements(s.bestLocations) \cup Elements(s.worstLocations)
                     \cup {s.bestPosition, s.worstPosition}
      rivals(s) == Elements(s.mostPlayed) \cup Elements(s.lowestSkillOpp)
                     \cup Elements(s.highestSkillOpp)
                     \cup {s.seasonOpener, s.seasonCloser}
  IN [teams |-> of("yourTeams", teams), places |-> of("happyPlace", places),
      rivals |-> of("rivals", rivals)]

\* p is wins / (wins + losses) x 100 to one decimal, counted in tenths:
\* the nearest tenth, a half rounding up; 0 for an empty bucket
OneDecimal(p, wins, losses) ==
  LET total == wins + losses
  IN IF total = 0 THEN p = 0
     ELSE /\ 2 * p * total <= 2000 * wins + total
          /\ 2000 * wins + total < 2 * (p + 1) * total

RightPct(recs) ==
  \A r \in recs : /\ OneDecimal(r.winPercentage, r.wins, r.losses)
                  /\ r.winPercentage \in 0..1000

\* C24: every win percentage reported with a team, location, position or
\* opponent bucket is wins / (wins + losses) x 100 rounded to one decimal,
\* lies between 0 and 100, and is exactly 0 when wins + losses = 0.
C24_BucketPercentages ==
  Done => /\ RightPct(Reported.teams)
          /\ RightPct(Reported.places)
          /\ RightPct(Reported.rivals)

\* a result with an empty team bucket and one win in six games, 16.7, for
\* a team, a location and an opponent
C24_Witness ==
  /\ Done
  /\ \E r \in Reported.teams : r.wins + r.losses = 0
  /\ \E r \in Reported.teams : r.winPercentage = 167
  /\ \E r \in Reported.places : r.winPercentage = 167
  /\ \E r \in Reported.rivals : r.winPercentage = 167

\* inside the game loop of a match, in either handler
InMatch == pc \in {"games", "rgames"}

\* the running score after a step accounts for every row of the match read
\* so far (the rows of a match arrive with positions 1, 2, 3, ...), and a
\* row moves exactly one of the two counters by one
RunningScore ==
  /\ InMatch' =>
       homeTeamScoreUpToNow' + awayTeamScoreUpToNow' = playerMatch'.matchOrder
  /\ GameStep => HomeBumped \/ AwayBumped

\* C25: while a match is processed, homeTeamScoreUpToNow +
\* awayTeamScoreUpToNow is the number of games of that match processed so
\* far, tracked or skipped: every game, one with equal scores included,
\* increments exactly one of the two counters.
C25_RunningScore == [][RunningScore]_vars

\* three games into a match, the last one with equal scores, both counters
\* moved
C25_Witness ==
  /\ InMatch
  /\ playerMatch.matchOrder = 3
  /\ HomePoints(playerMatch) = AwayPoints(playerMatch)
  /\ homeTeamScoreUpToNow >= 1
  /\ awayTeamScoreUpToNow >= 1

\* the counter a row moves is read off the two scores of the row alone, as
\* it is for a game between two other players
SideByScores ==
  GameStep => IF HomePoints(playerMatch') > AwayPoints(playerMatch')
              THEN HomeBumped ELSE AwayBumped

\* C26: for a given match the sequence of (home, away) counter values does
\* not depend on the tracked player: it is the same whichever participant
\* of a game is tracked, and the same as when no game involves the tracked
\* player.
C26_SameForEveryPlayer == [][SideByScores]_vars

RECURSIVE SumWins(_)
SumWins(stats) ==
  IF stats = <<>> THEN 0 ELSE Head(stats).wins + SumWins(Tail(stats))

RECURSIVE SumLosses(_)
SumLosses(stats) ==
  IF stats = <<>> THEN 0 ELSE Head(stats).losses + SumLosses(Tail(stats))

\* the wins and losses of the overall slide are spread over the buckets
SpreadOver(stats) ==
  /\ SlideOf("howdYouDo").wins = SumWins(stats)
  /\ SlideOf("howdYouDo").losses = SumLosses(stats)

\* C27: in every successful result the overall wins and losses add up to
\* the totalGames of the welcome slide, the wins are the sum of the wins of
\* the location buckets and the losses the sum of their losses, and
\* likewise for the position, opponent and team buckets.
C27_Conservation ==
  Done =>
    /\ SlideOf("howdYouDo").wins + SlideOf("howdYouDo").losses
         = SlideOf("welcome").totalGames
    /\ SpreadOver(locationStats)
    /\ SpreadOver(positionStats)
    /\ SpreadOver(opponentRecords)
    /\ SpreadOver(teamStats)

\* the report run works on the teams and tracked-player ids of the wrapped
\* request kept aside
SameInput ==
  /\ suspended.pc \in {"done", "failed"}
  /\ Len(suspended.filteredTeams) > 0
  /\ pc \in {"rteam", "rgames", "rdone"}
  /\ [k \in 1..Len(filteredTeams) |-> filteredTeams[k].apaId]
       = [k \in 1..Len(suspended.filteredTeams) |->
            suspended.filteredTeams[k].apaId]
  /\ playerIdByTeam = suspended.playerIdByTeam

Labels == {"team_winning", "team_losing", "team_tied"}

\* among the first n games the wrapped request recorded, those under a label
Labelled(n, label, won, lost) ==
  Cardinality({i \in 1..n :
     LET m == suspended.allPlayerMatches[i]
     IN /\ m.teamSituation = label
        /\ won => m.isWin
        /\ lost => m.playerScore < m.opponentScore})

\* the games the report has counted so far are filed under the labels the
\* wrapped request gave the same games
LabelsAgree ==
  /\ totalMatches <= Len(suspended.allPlayerMatches)
  /\ \A label \in Labels :
       LET stats == report.byTeamSituation
       IN IF HasKey(stats, label)
          THEN /\ stats[IndexOf(stats, label)].wins
                    = Labelled(totalMatches, label, TRUE, FALSE)
               /\ stats[IndexOf(stats, label)].losses
                    = Labelled(totalMatches, label, FALSE, TRUE)
               /\ Labelled(totalMatches, label, FALSE, FALSE) > 0
          ELSE Labelled(totalMatches, label, FALSE, FALSE) = 0

\* the finished report against the locals of the wrapped request
ReportAgrees ==
  /\ totalMatches = suspended.totalGames
  /\ report.byLocation = suspended.locationStats
  /\ report.byPosition = suspended.positionStats
  /\ report.headToHead = suspended.opponentRecords

\* C28: over the same teams, matches and tracked-player ids the report and
\* the wrapped request agree: totalMatches equals totalGames, every game
\* gets the same team-situation label in both, and byLocation, byPosition
\* and headToHead of the report equal the location, position and opponent
\* buckets of the slide pipeline.
C28_ReportAgrees ==
  SameInput => /\ LabelsAgree
               /\ pc = "rdone" => ReportAgrees

\* a report over two matches of one team, after a successful wrapped
\* request over the same matches, with games counted under every label
C28_Witness ==
  /\ pc = "rdone"
  /\ SameInput
  /\ suspended.pc = "done"
  /\ totalMatches = 6
  /\ Len(report.byLocation) = 2
  /\ \A label \in {"team_winning", "team_losing", "team_tied"} :
       \E i \in 1..Len(report.byTeamSituation) :
         report.byTeamSituation[i].key = label

\* C29: for every (client IP, path) key at most `limit` requests reach the
\* handler within one window, from the request that opens it until its
\* resetAt; a further request in the window is answered 429 and leaves the
\* stored count alone; the first request after resetAt opens a new window
\* with count 1, also while several requests for the key are in flight.
C29_RateLimit ==
  /\ \A key \in Keys :
       LET open == windows[key]
       IN open # NoRecord =>
            /\ open.count \in 1..RateLimits(key[2])
            /\ now <= open.resetAt => rateLimitStore[key] = open
  /\ response.status = 429 =>
       windows[response.key].count = RateLimits(response.key[2])
  /\ response.status = 200 => inFlight[response.key] <= arrived

\* the second window of a key opens with count 1 while the two requests of
\* the first window are still in flight, after a third request was refused
C29_Witness ==
  \E key \in Keys :
    /\ key[2] = "/api/wrapped/get"
    /\ inFlight[key] = 3
    /\ arrived = 4
    /\ rateLimitStore[key].count = 1
    /\ windows[key].count = 1
    /\ response = [key |-> key, status |-> 200]

\* the call receives the provider's answer to the query in this step
Received == cpc = "sent" /\ cpc' # "sent"

\* the query is sent at most twice; a token-expired answer to the first
\* attempt clears both tokens and calls login, whose success starts the one
\* retry; a token-expired answer to the retry is thrown with no login and
\* no further send
RetryOnce ==
  /\ fetches' <= 2
  /\ retryCount' <= 1
  /\ (Received /\ reply' = "expired" /\ retryCount = 0) =>
       /\ currentAuthToken' = NoToken
       /\ deviceRefreshToken' = NoToken
       /\ logins' = logins + 1
       /\ cpc' = "login"
       /\ caller' = "relogin"
  /\ (cpc = "logintoken" /\ caller = "relogin" /\ cpc' # "logintoken") =>
       \/ cpc' = "thrown" /\ retryCount' = retryCount
       \/ cpc' = "headers" /\ retryCount' = 1
  /\ (Received /\ reply' = "expired" /\ retryCount = 1) =>
       /\ cpc' = "thrown"
       /\ logins' = logins
       /\ fetches' = fetches
  /\ Settled => cpc' = cpc /\ fetches' = fetches /\ logins' = logins

\* C30: makeGraphQLRequest sends a given query at most twice and always
\* terminates with a result or an error: a token-expired error on the
\* first attempt clears both tokens, logs in again and retries once, and a
\* token-expired error on the retry is raised to the caller without
\* another login or retry.
C30_RetryOnce == [][RetryOnce]_vars /\ <>Settled

\* the retry was answered with a token-expired error and the call threw,
\* after two sends and the one re-login
C30_Witness ==
  /\ cpc = "thrown"
  /\ reply = "expired"
  /\ retryCount = 1
  /\ fetches = 2
  /\ logins = 1
  /\ caller = "relogin"

====
